---- MODULE Spec2Model ----
(***************************************************************************)
(* Catalyst Trading System (International / HKEX): the stimulus-driven     *)
(* control loop, the pre-trade SafetyValidator, the StimulusEvaluator and  *)
(* the ToolExecutor trade path.                                            *)
(*                                                                         *)
(* Units.  Money is in whole HKD, quantities in shares.  Every fraction    *)
(* that the code keeps as a float (0.20, 0.02, ...) is kept here in basis  *)
(* points (1 bp = 1/10000) and every comparison of a quotient against a    *)
(* limit is done by cross-multiplication, which is what the float          *)
(* comparison computes for the integer inputs enumerated below.            *)
(***************************************************************************)
EXTENDS Integers, Sequences, FiniteSets, TLC

VARIABLES
    day,              \* exchange-local calendar date, counted from the first day
    tod,              \* exchange-local time of day, in minutes since midnight
    limits,           \* SafetyValidator.limits
    daily_trades,     \* SafetyValidator.daily_trades
    trade_date,       \* SafetyValidator.trade_date (NoDate models None)
    last,             \* the last operation, its input and what it returned or raised
    reset_count,      \* history: how often the counter was zeroed on the current date
    calls_today,      \* history: validator calls on the current date (saturates at 2)
    approved_props,   \* history: proposals validate_trade has approved
    broker_orders,    \* orders accepted by the broker (FutuClient.place_order)
    tool_trades_executed, \* ToolExecutor.trades_executed
    alerted_symbols,  \* StimulusEvaluator.alerted_symbols
    last_prices,      \* StimulusEvaluator.last_prices
    last_volumes,     \* StimulusEvaluator.last_volumes
    strategy,         \* StimulusEvaluator.strategy
    stimuli,          \* the stimuli returned by the last evaluate, still to be processed
    price_moves,      \* history: PRICE_MOVE stimuli per symbol since the last reset_session
    stale_alerts,     \* history: alerted symbols whose alert is from an earlier session
    pc,               \* control loop: position inside loop_iteration
    session_analysis_done, \* AutonomousAgent.session_analysis_done
    week_analysis_done,    \* AutonomousAgent.week_analysis_done
    ib_orders,        \* orders placed by ExecutionEngine through ib.placeOrder
    market_state,     \* the MarketState snapshot the last evaluate was given
    running,          \* AutonomousAgent.running
    decisions,        \* the rows of the decisions table, by decision_id
    released,         \* the collaborators shutdown() has released
    analyses,         \* history: end_of_session_analysis calls since the latch was cleared
    analysed_window,  \* history: end_of_session_analysis was called in the session-end window the clock is in
    queue,            \* AlertSender._queue
    worker,           \* AlertSender._worker (None or a thread)
    sender_running,   \* AlertSender._running
    threads,          \* where each worker thread is in _worker_loop, and its item
    caller,           \* where the thread that calls start, send and stop is
    enqueued,         \* history: the alerts send() has put on the queue
    at_stop,          \* history: the alerts enqueued before the latest stop()
    handed            \* history: the alerts handed to _send_email

clockVars == <<day, tod>>
senderVars == <<queue, worker, sender_running, threads, caller, enqueued,
               at_stop, handed>>
validatorVars == <<limits, daily_trades, trade_date, approved_props>>
histVars == <<reset_count, calls_today>>
toolVars == <<broker_orders, tool_trades_executed>>
evalVars == <<alerted_symbols, last_prices, last_volumes, price_moves, stale_alerts,
              strategy>>
runVars == <<running, decisions, released, analyses,
                   analysed_window>>
loopVars == <<stimuli, pc, session_analysis_done, week_analysis_done, ib_orders,
              market_state, running, decisions, released, analyses,
          analysed_window, queue, worker, sender_running, threads, caller,
          enqueued, at_stop, handed>>
vars == <<day, tod, limits, daily_trades, trade_date, last, reset_count,
          calls_today, approved_props, broker_orders, tool_trades_executed,
          alerted_symbols, last_prices, last_volumes, strategy, stimuli, price_moves,
          stale_alerts, pc, session_analysis_done, week_analysis_done, ib_orders,
          market_state, running, decisions, released, analyses,
                   analysed_window>>

----------------------------------------------------------------------------
(* Bounds of the model *)

MaxDay == 3          \* days 0..MaxDay are explored (day 0 is a Friday)
MaxRecorded == 3     \* record_trade is explored while daily_trades < MaxRecorded
MaxOrders == 2       \* at most this many orders are sent to the Futu gateway
MaxIbOrders == 1     \* at most this many orders are sent to the IB gateway
MaxEmits == 2        \* the PRICE_MOVE history counter saturates here
MaxDecisions == 2    \* the decisions table is explored up to this many rows
MaxAnalyses == 2     \* the end_of_session_analysis history counter saturates here
MaxWorkers == 2      \* at most this many AlertSender worker threads are created
MaxAlerts == 2       \* at most this many alerts are passed to AlertSender.send

----------------------------------------------------------------------------
(* The exchange clock: datetime.now(HK_TZ) *)

NoDate == 0 - 1

\* datetime.weekday(): Monday = 0 ... Sunday = 6; day 0 of the model is a Friday
Weekday(d) == (d + 4) % 7

\* time(h, m) as minutes since midnight
Time(h, m) == h * 60 + m

\* The trading sessions numbered through the days: two a day, the afternoon
\* session beginning with its start window at 13:00
SessionOf(d, t) == 2 * d + (IF t < Time(13, 0) THEN 0 ELSE 1)

\* The instants at which the clock is observed: each side of every boundary
\* the code compares against, and one instant well inside the morning session.
TimePoints ==
    { Time(9, 29), Time(9, 30), Time(10, 30), Time(12, 0),
      Time(13, 0), Time(15, 59), Time(16, 0) }

----------------------------------------------------------------------------
(* RiskLimits (safety.py) *)

\* The dataclass defaults: 0.20, 10000, 0.02, 0.015, 0.01, 10, 2.0, 0.05, 100
DefaultLimits ==
    [ max_positions       |-> 5,
      max_position_bp     |-> 2000,
      min_position_value  |-> 10000,
      max_daily_loss_bp   |-> 200,
      warning_loss_bp     |-> 150,
      max_trade_loss_bp   |-> 100,
      max_daily_trades    |-> 10,
      min_risk_reward_x10 |-> 20,
      max_stop_loss_bp    |-> 500,
      lot_size            |-> 100 ]

\* A validator constructed with its own RiskLimits: a tighter per-trade risk
\* (0.5 %) and a daily ceiling of two trades; the other fields keep the defaults.
TightLimits ==
    [ DefaultLimits EXCEPT !.max_trade_loss_bp = 50, !.max_daily_trades = 2 ]

LimitConfigs == { DefaultLimits, TightLimits }

----------------------------------------------------------------------------
(* SafetyValidator (safety.py) *)

Abs(x) == IF x < 0 THEN 0 - x ELSE x

\* The arguments of validate_trade that the model explores.  daily_pnl_bp is
\* daily_pnl_pct in basis points (-200 is -0.02).
Sides == { "buy", "sell" }
Quantities == { 150, 400, 1000, 2000 }
EntryPrices == { 20 }
StopPrices == { 18, 19, 21 }
TargetPrices == { 18, 21, 22 }
PortfolioValues == { 0, 100000, 200000 }
CashValues == { 0, 50000 }
PositionCounts == { 0, 5 }
DailyPnls == { 0 - 250, 0 - 200, 0 - 160, 0 - 150, 0 }

Proposals ==
    [ symbol : { "0700" }, side : Sides, quantity : Quantities,
      entry_price : EntryPrices, stop_loss : StopPrices,
      take_profit : TargetPrices, portfolio_value : PortfolioValues,
      cash_available : CashValues, current_positions : PositionCounts,
      daily_pnl_bp : DailyPnls ]

NoProposal ==
    [ symbol |-> "", side |-> "none", quantity |-> 0, entry_price |-> 0,
      stop_loss |-> 0, take_profit |-> 0, portfolio_value |-> 0,
      cash_available |-> 0, current_positions |-> 0, daily_pnl_bp |-> 0 ]

\* SafetyValidator.is_market_open at weekday wd and time t: <<is_open, reason>>
is_market_open(wd, t) ==
    IF wd >= 5 THEN <<FALSE, "Market closed: Weekend">>
    ELSE IF Time(9, 30) <= t /\ t < Time(12, 0) THEN <<TRUE, "Morning session">>
    ELSE IF Time(13, 0) <= t /\ t < Time(16, 0) THEN <<TRUE, "Afternoon session">>
    ELSE IF Time(12, 0) <= t /\ t < Time(13, 0)
         THEN <<FALSE, "Market closed: Lunch break (12:00-13:00)">>
    ELSE IF t < Time(9, 30) THEN <<FALSE, "Market closed: Before market open">>
    ELSE <<FALSE, "Market closed: After market close">>

\* The position metrics validate_trade computes before its checks (lines 131-140)
position_value(p) == p.quantity * p.entry_price
risk_per_share(p) == Abs(p.entry_price - p.stop_loss)
risk_amount(p) == risk_per_share(p) * p.quantity
reward_per_share(p) == Abs(p.take_profit - p.entry_price)

\* round(x, 2) of the quotient x = n / d, in hundredths (n >= 0, d > 0)
Round2(n, d) == (2 * n * 100 + d) \div (2 * d)

\* The details dict of validate_trade (lines 142-156).  position_value,
\* risk_amount and reward_amount are in HKD; portfolio_pct, risk_pct and
\* stop_loss_pct, which the code rounds to two decimals of a percentage, are in
\* hundredths of a percent; risk_reward is in hundredths.
details(p) ==
    [ symbol |-> p.symbol, side |-> p.side, quantity |-> p.quantity,
      entry_price |-> p.entry_price, stop_loss |-> p.stop_loss,
      take_profit |-> p.take_profit,
      position_value |-> position_value(p),
      portfolio_pct |-> IF p.portfolio_value > 0
                        THEN Round2(position_value(p) * 100, p.portfolio_value)
                        ELSE 0,
      risk_amount |-> risk_amount(p),
      risk_pct |-> IF p.portfolio_value > 0
                   THEN Round2(risk_amount(p) * 100, p.portfolio_value)
                   ELSE 0,
      reward_amount |-> reward_per_share(p) * p.quantity,
      risk_reward |-> IF risk_per_share(p) > 0
                      THEN Round2(reward_per_share(p), risk_per_share(p))
                      ELSE 0,
      stop_loss_pct |-> IF p.entry_price > 0
                        THEN Round2(risk_per_share(p) * 100, p.entry_price)
                        ELSE 0 ]

\* A variant of validate_trade that returns the details only on approval
WithDetails_on_approval(v, d) ==
    [ approved |-> v.approved, reason |-> v.reason, warnings |-> v.warnings,
      details |-> IF v.approved THEN d
                  ELSE [ symbol |-> d.symbol, side |-> d.side,
                         quantity |-> d.quantity ] ]

\* details=details of every SafetyCheckResult validate_trade returns
WithDetails(v, d) ==
    [ approved |-> v.approved, reason |-> v.reason, warnings |-> v.warnings,
      details |-> d ]

\* SafetyCheckResult: approved, reason, warnings
Verdict(ok, why, warn) ==
    [ approved |-> ok, reason |-> why, warnings |-> warn ]

NoVerdict == Verdict(FALSE, "", {})

\* Check 1: not market_open
MarketClosed(wd, t) == ~ is_market_open(wd, t)[1]

\* Check 2: quantity % lot_size != 0
\* A variant of check 2 that lets every quantity through
LotSizeViolated_never(p, lim) == FALSE

LotSizeViolated(p, lim) == p.quantity % lim.lot_size # 0

\* Check 3: daily_pnl_pct <= -max_daily_loss_pct
\* A variant of check 3 that lets a loss of exactly the limit through
DailyLossReached_strict(p, lim) == p.daily_pnl_bp < 0 - lim.max_daily_loss_bp

DailyLossReached(p, lim) == p.daily_pnl_bp <= 0 - lim.max_daily_loss_bp

\* Check 3b: daily_pnl_pct <= -warning_loss_pct appends the warning
\* A variant of check 3b that warns only below the warning level
LossWarnings_strict(p, lim) ==
    IF p.daily_pnl_bp < 0 - lim.warning_loss_bp
    THEN { "Warning: Approaching daily loss limit" } ELSE {}

LossWarnings(p, lim) ==
    IF p.daily_pnl_bp <= 0 - lim.warning_loss_bp
    THEN { "Warning: Approaching daily loss limit" } ELSE {}

\* get_conservative_mode_warning(daily_pnl_pct): the message, or "" for None
get_conservative_mode_warning(daily_pnl_bp, lim) ==
    IF 0 - lim.max_daily_loss_bp < daily_pnl_bp
       /\ daily_pnl_bp <= 0 - lim.warning_loss_bp
    THEN "Conservative mode: Avoid new positions." ELSE ""

\* Check 4: current_positions >= max_positions
MaxPositionsReached(p, lim) == p.current_positions >= lim.max_positions

\* Check 5: portfolio_pct > max_position_pct, where portfolio_pct is
\* position_value / portfolio_value if portfolio_value > 0 else 0
PositionTooLarge(p, lim) ==
    /\ p.portfolio_value > 0
    /\ position_value(p) * 10000 > lim.max_position_bp * p.portfolio_value

\* Check 6: position_value < min_position_value
PositionTooSmall(p, lim) == position_value(p) < lim.min_position_value

\* Check 7: side == "buy" and position_value > cash_available
InsufficientCash(p) == p.side = "buy" /\ position_value(p) > p.cash_available

\* Check 8: the stop loss on the wrong side of the entry price
StopLossWrongSide(p) ==
    \/ p.side = "buy" /\ p.stop_loss >= p.entry_price
    \/ p.side = "sell" /\ p.stop_loss <= p.entry_price

\* Check 9: stop_loss_pct > max_stop_loss_pct, where stop_loss_pct is
\* risk_per_share / entry_price if entry_price > 0 else 0
StopLossTooWide(p, lim) ==
    /\ p.entry_price > 0
    /\ risk_per_share(p) * 10000 > lim.max_stop_loss_bp * p.entry_price

\* Check 10: risk_reward < min_risk_reward, where risk_reward is
\* reward_per_share / risk_per_share if risk_per_share > 0 else 0
RiskRewardTooLow(p, lim) ==
    IF risk_per_share(p) > 0
    THEN reward_per_share(p) * 10 < lim.min_risk_reward_x10 * risk_per_share(p)
    ELSE 0 < lim.min_risk_reward_x10

\* Check 11: risk_pct > max_trade_loss_pct, where risk_pct is
\* risk_amount / portfolio_value if portfolio_value > 0 else 0
TradeRiskTooHigh(p, lim) ==
    /\ p.portfolio_value > 0
    /\ risk_amount(p) * 10000 > lim.max_trade_loss_bp * p.portfolio_value

\* Check 12: self.daily_trades >= max_daily_trades
DailyTradeLimitReached(n, lim) == n >= lim.max_daily_trades

\* Check 13: the take profit on the wrong side of the entry price
TakeProfitWrongSide(p) ==
    \/ p.side = "buy" /\ p.take_profit <= p.entry_price
    \/ p.side = "sell" /\ p.take_profit >= p.entry_price

StopLossReason(p) ==
    IF p.side = "buy"
    THEN "Stop loss must be below entry price for long positions"
    ELSE "Stop loss must be above entry price for short positions"

TakeProfitReason(p) ==
    IF p.side = "buy"
    THEN "Take profit must be above entry price for long positions"
    ELSE "Take profit must be below entry price for short positions"

\* validate_trade with checks 12 and 13 in the other order
validate_checks_swapped(p, lim, n, wd, t) ==
    LET w == LossWarnings(p, lim) IN
    IF MarketClosed(wd, t) THEN Verdict(FALSE, is_market_open(wd, t)[2], {})
    ELSE IF LotSizeViolated(p, lim)
    THEN Verdict(FALSE, "Quantity must be multiple of lot size (board lot)", {})
    ELSE IF DailyLossReached(p, lim) THEN Verdict(FALSE, "Daily loss limit reached", {})
    ELSE IF MaxPositionsReached(p, lim) THEN Verdict(FALSE, "Maximum positions reached", w)
    ELSE IF PositionTooLarge(p, lim) THEN Verdict(FALSE, "Position too large", w)
    ELSE IF PositionTooSmall(p, lim) THEN Verdict(FALSE, "Position too small", w)
    ELSE IF InsufficientCash(p) THEN Verdict(FALSE, "Insufficient cash", w)
    ELSE IF StopLossWrongSide(p) THEN Verdict(FALSE, StopLossReason(p), w)
    ELSE IF StopLossTooWide(p, lim) THEN Verdict(FALSE, "Stop loss too wide", w)
    ELSE IF RiskRewardTooLow(p, lim) THEN Verdict(FALSE, "Risk/reward too low", w)
    ELSE IF TradeRiskTooHigh(p, lim) THEN Verdict(FALSE, "Trade risk too high", w)
    ELSE IF TakeProfitWrongSide(p) THEN Verdict(FALSE, TakeProfitReason(p), w)
    ELSE IF DailyTradeLimitReached(n, lim)
    THEN Verdict(FALSE, "Daily trade limit reached", w)
    ELSE Verdict(TRUE, "All risk checks passed", w)

\* The checks of validate_trade after reset_daily_counters (lines 158-304), for
\* limits lim, the counter value n the checks see, weekday wd and time t.
validate_checks(p, lim, n, wd, t) ==
    LET w == LossWarnings(p, lim) IN
    IF MarketClosed(wd, t) THEN Verdict(FALSE, is_market_open(wd, t)[2], {})
    ELSE IF LotSizeViolated(p, lim)
    THEN Verdict(FALSE, "Quantity must be multiple of lot size (board lot)", {})
    ELSE IF DailyLossReached(p, lim) THEN Verdict(FALSE, "Daily loss limit reached", {})
    ELSE IF MaxPositionsReached(p, lim) THEN Verdict(FALSE, "Maximum positions reached", w)
    ELSE IF PositionTooLarge(p, lim) THEN Verdict(FALSE, "Position too large", w)
    ELSE IF PositionTooSmall(p, lim) THEN Verdict(FALSE, "Position too small", w)
    ELSE IF InsufficientCash(p) THEN Verdict(FALSE, "Insufficient cash", w)
    ELSE IF StopLossWrongSide(p) THEN Verdict(FALSE, StopLossReason(p), w)
    ELSE IF StopLossTooWide(p, lim) THEN Verdict(FALSE, "Stop loss too wide", w)
    ELSE IF RiskRewardTooLow(p, lim) THEN Verdict(FALSE, "Risk/reward too low", w)
    ELSE IF TradeRiskTooHigh(p, lim) THEN Verdict(FALSE, "Trade risk too high", w)
    ELSE IF DailyTradeLimitReached(n, lim)
    THEN Verdict(FALSE, "Daily trade limit reached", w)
    ELSE IF TakeProfitWrongSide(p) THEN Verdict(FALSE, TakeProfitReason(p), w)
    ELSE Verdict(TRUE, "All risk checks passed", w)

\* What one step of the control loop did: the stimulus it was given, how the
\* oracle answered, the decision's action, the ids log_decision returned and
\* update_decision_execution was given (0: not called), whether
\* executor.execute and executor.close_all_positions were called, the
\* ExecutionResult's success, the alerts sent, how the notification channel
\* answered the send ("" without a send), and how the snapshots came back
NoStimulus == [ type |-> "", symbol |-> "", level |-> "", urgency |-> "" ]

NoStep ==
    [ stimulus |-> NoStimulus, oracle |-> "", action |-> "", logged |-> 0,
      updated |-> 0, executed |-> FALSE, close_all |-> FALSE, success |-> FALSE,
      alerts |-> {}, channel |-> "", fetch |-> "", evaluated |-> FALSE,
      analysis |-> "" ]

\* An operation that returns nothing; before is the counter it started from,
\* portfolio the portfolio an evaluate call was given, snapshot and closes the
\* positions close_all_positions read and the results it returned
Idle(name) ==
    [ op |-> name, proposal |-> NoProposal, result |-> NoVerdict,
      status |-> "", error |-> "", before |-> daily_trades, step |-> NoStep,
      portfolio |-> [ positions |-> <<>>, daily_pnl_pct |-> 0 ],
      snapshot |-> <<>>, closes |-> <<>> ]

\* Variants of reset_daily_counters: one that moves the date without zeroing,
\* one that zeroes on every call
ResetCounters_keep(n, d, today) ==
    [ n |-> n, d |-> today, zeroed |-> d # today ]

ResetCounters_always(n, d, today) ==
    [ n |-> 0, d |-> today, zeroed |-> TRUE ]

\* reset_daily_counters with counter n and trade_date d on date today: the
\* counter and the date it leaves, and whether the zeroing branch was taken
ResetCounters(n, d, today) ==
    IF d # today
    THEN [ n |-> 0, d |-> today, zeroed |-> TRUE ]
    ELSE [ n |-> n, d |-> d, zeroed |-> FALSE ]

Saturate(k) == IF k >= 2 THEN 2 ELSE k

\* What every entry into the validator does first: reset_daily_counters, with
\* the history of the current date kept beside it
EnterValidator ==
    LET r == ResetCounters(daily_trades, trade_date, day) IN
    /\ trade_date' = r.d
    /\ reset_count' = Saturate(reset_count + (IF r.zeroed THEN 1 ELSE 0))
    /\ calls_today' = Saturate(calls_today + 1)

\* reset_daily_counters() called on its own
reset_daily_counters ==
    /\ EnterValidator
    /\ daily_trades' = ResetCounters(daily_trades, trade_date, day).n
    /\ last' = Idle("reset_daily_counters")
    /\ UNCHANGED <<senderVars, limits, approved_props, clockVars, toolVars, evalVars, loopVars>>

\* The verdict validate_trade(p) returns in the current state
validate_result(p) ==
    WithDetails(validate_checks(p, limits,
                                ResetCounters(daily_trades, trade_date, day).n,
                                Weekday(day), tod),
                details(p))

\* validate_trade(p): reset_daily_counters, then the checks
validate_trade(p) ==
    /\ EnterValidator
    /\ daily_trades' = ResetCounters(daily_trades, trade_date, day).n
    /\ last' = [ Idle("validate_trade") EXCEPT !.proposal = p,
                                               !.result = validate_result(p) ]
    /\ approved_props' = IF validate_result(p).approved
                         THEN approved_props \cup {p} ELSE approved_props
    /\ UNCHANGED <<senderVars, limits, clockVars, toolVars, evalVars, loopVars>>

\* The verdict validate_close_all(daily_pnl_pct, reason) returns
validate_close_all_result(daily_pnl_bp, lim) ==
    [ approved |-> TRUE, reason |-> "Emergency close approved",
      warnings |-> IF daily_pnl_bp > 0 - lim.warning_loss_bp
                   THEN { "Close all triggered without loss limit breach" }
                   ELSE {},
      details |-> [ daily_pnl_pct |-> daily_pnl_bp ] ]

\* validate_close_all(daily_pnl_pct, reason), which leaves the validator as it is
validate_close_all(daily_pnl_bp) ==
    /\ last' = [ Idle("validate_close_all") EXCEPT
                   !.proposal = [ NoProposal EXCEPT !.daily_pnl_bp = daily_pnl_bp ],
                   !.result = validate_close_all_result(daily_pnl_bp, limits) ]
    /\ UNCHANGED <<senderVars, validatorVars, histVars, clockVars, toolVars, evalVars,
                   loopVars>>

\* record_trade(): reset_daily_counters, then daily_trades += 1
RecordedCount(n, d, today) == ResetCounters(n, d, today).n + 1

record_trade ==
    /\ daily_trades < MaxRecorded
    /\ EnterValidator
    /\ daily_trades' = RecordedCount(daily_trades, trade_date, day)
    /\ last' = Idle("record_trade")
    /\ UNCHANGED <<senderVars, limits, approved_props, clockVars, toolVars, evalVars, loopVars>>

\* StimulusEvaluator.is_session_start, is_session_end
is_session_start(t) ==
    \/ Time(9, 30) <= t /\ t <= Time(9, 35)
    \/ Time(13, 0) <= t /\ t <= Time(13, 5)

is_session_end(t) ==
    \/ Time(11, 55) <= t /\ t <= Time(12, 0)
    \/ Time(15, 55) <= t /\ t <= Time(16, 0)

\* The session-end window a moment inside one belongs to
SessionEndWindow(d, t) ==
    <<d, IF t <= Time(12, 0) THEN "morning" ELSE "afternoon">>

\* Time passes: later on the same date, or into the next date.
Tick ==
    /\ \/ /\ day' = day
          /\ tod' \in { t \in TimePoints : t > tod }
          /\ UNCHANGED histVars
       \/ /\ day < MaxDay
          /\ day' = day + 1
          /\ tod' \in TimePoints
          /\ reset_count' = 0
          /\ calls_today' = 0
    /\ stale_alerts' = IF SessionOf(day', tod') # SessionOf(day, tod)
                       THEN alerted_symbols ELSE stale_alerts
    /\ analysed_window' = /\ analysed_window
                          /\ is_session_end(tod')
                          /\ SessionEndWindow(day', tod') = SessionEndWindow(day, tod)
    /\ last' = Idle("tick")
    /\ UNCHANGED <<senderVars, validatorVars, toolVars, stimuli, pc,
                   session_analysis_done, week_analysis_done, ib_orders,
                   market_state, running, decisions, released, analyses,
                   alerted_symbols,
                   last_prices, last_volumes, price_moves, strategy>>

----------------------------------------------------------------------------
(* Proposals used where the validator is exercised over time *)

GoodBuy ==
    [ symbol |-> "0700", side |-> "buy", quantity |-> 1000, entry_price |-> 20,
      stop_loss |-> 19, take_profit |-> 22, portfolio_value |-> 200000,
      cash_available |-> 50000, current_positions |-> 0, daily_pnl_bp |-> 0 ]

GoodSell ==
    [ GoodBuy EXCEPT !.side = "sell", !.stop_loss = 21, !.take_profit = 18,
                     !.cash_available = 0 ]

SampleProposals ==
    { GoodBuy, GoodSell,
      [ GoodBuy EXCEPT !.quantity = 150 ],
      [ GoodBuy EXCEPT !.daily_pnl_bp = 0 - 200 ],
      [ GoodBuy EXCEPT !.take_profit = 21 ] }

----------------------------------------------------------------------------
(* The parts of the state a specification leaves alone *)

\* The head of MarketMonitor.watchlist, in its order
Watchlist == << "0700", "0005" >>
Symbols == { Watchlist[i] : i \in 1 .. Len(Watchlist) }

\* The place of a symbol in the watchlist, which is the order of market.quotes
WatchIndex(symbol) == CHOOSE k \in 1 .. Len(Watchlist) : Watchlist[k] = symbol

\* A key that a dict does not hold
Absent == 0 - 1

\* MarketState(is_market_open, quotes); quotes maps each symbol to a Quote
NoQuote == [ last |-> 0, change_x10 |-> 0, volume |-> 0 ]
NoMarketState == [ is_market_open |-> FALSE, quotes |-> [ s \in Symbols |-> NoQuote ] ]

\* The item stop() puts on the queue to end the worker; Python's None where
\* _worker holds no thread
None == 0

\* The threads AlertSender can create and the alerts it can be given
Workers == 1 .. MaxWorkers

Alerts == 1 .. MaxAlerts

\* A thread that start() has not created yet
Unborn == [ pc |-> "unborn", item |-> None ]

\* AlertSender.__init__: an empty queue, no worker, _running = False
InitAlertSender ==
    /\ queue = <<>>
    /\ worker = None
    /\ sender_running = FALSE
    /\ threads = [ w \in Workers |-> Unborn ]
    /\ caller = "idle"
    /\ enqueued = {}
    /\ at_stop = {}
    /\ handed = {}

\* The strategy parameters get_current_strategy answered with when the
\* evaluator was constructed, and parameters a strategic update stores later
\* (thresholds in tenths)
InitialStrategy == [ volume_threshold_x10 |-> 15, price_threshold_x10 |-> 20 ]
RevisedStrategy == [ volume_threshold_x10 |-> 30, price_threshold_x10 |-> 30 ]

InitEvaluator ==
    /\ strategy = InitialStrategy
    /\ alerted_symbols = {}
    /\ last_prices = [ s \in Symbols |-> Absent ]
    /\ last_volumes = [ s \in Symbols |-> Absent ]
    /\ price_moves = [ s \in Symbols |-> 0 ]
    /\ stale_alerts = {}

InitLoop ==
    /\ stimuli = <<>>
    /\ pc = "idle"
    /\ session_analysis_done = FALSE
    /\ week_analysis_done = FALSE
    /\ ib_orders = <<>>
    /\ market_state = NoMarketState
    /\ running = TRUE
    /\ decisions = <<>>
    /\ released = {}
    /\ analyses = 0
    /\ analysed_window = FALSE

InitTool ==
    /\ broker_orders = <<>>
    /\ tool_trades_executed = 0

\* SafetyValidator.__init__
InitSafetyValidator ==
    /\ limits \in LimitConfigs
    /\ daily_trades = 0
    /\ trade_date = NoDate
    /\ reset_count = 0
    /\ calls_today = 0
    /\ approved_props = {}

InitClock ==
    /\ day = 0
    /\ tod = Time(9, 29)

----------------------------------------------------------------------------
(* SpecValidate: validate_trade as a function of its arguments, applied once   *)
(* in each state the validator can be in when it is called                     *)

InitValidate ==
    /\ limits \in LimitConfigs
    /\ day \in { 0, 1 }
    /\ tod \in TimePoints
    /\ day = 1 => tod = Time(10, 30)
    /\ \/ /\ trade_date = NoDate /\ daily_trades = 0
          /\ reset_count = 0 /\ calls_today = 0
       \/ /\ trade_date = day /\ daily_trades \in 0 .. MaxRecorded
          /\ reset_count = 1 /\ calls_today = 1
    /\ approved_props = {}
    /\ last = Idle("init")
    /\ InitTool /\ InitEvaluator /\ InitLoop /\ InitAlertSender

ValidateAny == last.op = "init" /\ \E p \in Proposals : validate_trade(p)

NextValidate == ValidateAny

SpecValidate == InitValidate /\ [][NextValidate]_vars

----------------------------------------------------------------------------
(* SpecValidator: the validator's public operations called in any order as     *)
(* time passes                                                                 *)

InitValidator ==
    /\ InitClock /\ InitSafetyValidator
    /\ last = Idle("init")
    /\ InitTool /\ InitEvaluator /\ InitLoop /\ InitAlertSender

ValidateSample == \E p \in SampleProposals : validate_trade(p)

ValidateCloseAll == \E daily_pnl_bp \in DailyPnls : validate_close_all(daily_pnl_bp)

NextValidator ==
    \/ Tick
    \/ ValidateSample
    \/ record_trade
    \/ reset_daily_counters
    \/ ValidateCloseAll

SpecValidator == InitValidator /\ [][NextValidator]_vars

----------------------------------------------------------------------------
(* FutuClient.execute_trade (brokers/futu.py) and ToolExecutor (tool_executor.py) *)

\* The inputs of the execute_trade tool; limit_price 0 models an absent limit_price
TradeOf(p, order_type) ==
    [ symbol |-> p.symbol, side |-> p.side, quantity |-> p.quantity,
      order_type |-> order_type,
      limit_price |-> IF order_type = "limit" THEN p.entry_price ELSE 0,
      stop_loss |-> p.stop_loss, take_profit |-> p.take_profit ]

TradeInputs ==
    { TradeOf(GoodBuy, "limit"), TradeOf(GoodSell, "market"),
      [ TradeOf(GoodBuy, "limit") EXCEPT !.limit_price = 0 ] }

\* What the OpenD gateway does with a call: the client not unlocked for
\* trading, place_order raising, place_order returning an error code, or
\* place_order returning RET_OK
FutuOutcomes == { "locked", "raised", "refused", "accepted" }

\* OrderResult is a dataclass: status, and whether place_order took the order
OrderResult(status, placed) ==
    [ type |-> "OrderResult", status |-> status, placed |-> placed ]

\* FutuClient.execute_trade
futu_execute_trade(inp, outcome) ==
    IF outcome = "locked" THEN OrderResult("REJECTED", FALSE)
    ELSE IF inp.side \notin { "buy", "long", "sell", "short" }
    THEN OrderResult("REJECTED", FALSE)
    ELSE IF inp.order_type # "market" /\ inp.limit_price = 0
    THEN OrderResult("REJECTED", FALSE)
    ELSE IF outcome = "raised" THEN OrderResult("ERROR", FALSE)
    ELSE IF outcome = "refused" THEN OrderResult("REJECTED", FALSE)
    ELSE OrderResult("SUBMITTED", TRUE)

\* result["status"]: a dict can be subscripted, a dataclass instance cannot
\* (TypeError: 'OrderResult' object is not subscriptable)
Subscriptable(result) == result.type = "dict"

\* The statuses _execute_trade takes for a successful execution (line 258)
RecordedStatuses == { "Filled", "Submitted", "PreSubmitted" }

\* A variant of the status test that takes every broker result for a success
ToolRecords_any(result) == TRUE

\* Whether _execute_trade reaches its bookkeeping (lines 259-287)
ToolRecords(result) ==
    /\ Subscriptable(result)
    /\ result.status \in RecordedStatuses

\* ToolExecutor.execute("execute_trade", inp) -> _execute_trade(inp)
ExecuteTrade ==
    \E inp \in TradeInputs, outcome \in FutuOutcomes :
        LET result == futu_execute_trade(inp, outcome) IN
        /\ Len(broker_orders) < MaxOrders
        /\ daily_trades < MaxRecorded
        /\ broker_orders' = IF result.placed THEN Append(broker_orders, inp)
                                             ELSE broker_orders
        /\ IF ToolRecords(result)
           THEN /\ tool_trades_executed' = tool_trades_executed + 1
                /\ EnterValidator
                /\ daily_trades' = RecordedCount(daily_trades, trade_date, day)
           ELSE UNCHANGED <<tool_trades_executed, daily_trades, trade_date, histVars>>
        /\ last' = [ Idle("execute_trade") EXCEPT
                       !.status = result.status,
                       !.error = IF Subscriptable(result) THEN "" ELSE "TypeError" ]
        /\ UNCHANGED <<senderVars, limits, approved_props, clockVars, evalVars, loopVars>>

\* ToolExecutor.execute("check_risk", ...) -> _check_risk: the portfolio that
\* FutuClient.get_portfolio returns ({} or total_value, cash, market_value,
\* buying_power, currency, environment) has no "positions" key, so line 207
\* raises KeyError before validate_trade_request is reached
CheckRisk ==
    /\ last' = [ Idle("check_risk") EXCEPT !.error = "KeyError" ]
    /\ UNCHANGED <<senderVars, validatorVars, histVars, toolVars, clockVars, evalVars, loopVars>>

----------------------------------------------------------------------------
(* SpecTool: the tool executor's trade path over the validator singleton, with *)
(* validate_trade_request, record_trade and reset_daily_counters called in any *)
(* order by the singleton's other users                                        *)

InitToolSpec ==
    /\ InitClock /\ InitSafetyValidator
    /\ last = Idle("init")
    /\ InitTool /\ InitEvaluator /\ InitLoop /\ InitAlertSender

\* validate_trade_request(...): get_safety_validator().validate_trade(...)
validate_trade_request == \E p \in SampleProposals : validate_trade(p)

NextTool ==
    \/ Tick
    \/ validate_trade_request
    \/ record_trade
    \/ reset_daily_counters
    \/ CheckRisk
    \/ ExecuteTrade

SpecTool == InitToolSpec /\ [][NextTool]_vars

----------------------------------------------------------------------------
(* StimulusEvaluator (agent/stimulus.py).  change_pct and the two thresholds  *)
(* are kept in tenths (2.0 -> 20), daily_pnl_pct in whole percent.             *)

volume_threshold_x10 == 15
price_threshold_x10 == 20
max_daily_loss_pct_x10 == 20

Stimulus(type, symbol, urgency) ==
    [ type |-> type, symbol |-> symbol, level |-> "TACTICAL", urgency |-> urgency ]

\* A variant of _check_volume_spike that relates the change to the current volume
check_volume_spike_of_current(symbol, quote) ==
    LET volume == quote.volume
        last_volume == IF last_volumes[symbol] = Absent THEN volume
                       ELSE last_volumes[symbol]
    IN  IF last_volume = 0 \/ volume = 0 THEN <<>>
        ELSE IF (volume - last_volume) * 10 > volume_threshold_x10 * volume
        THEN << Stimulus("VOLUME_SPIKE", symbol, "high") >>
        ELSE <<>>

\* _check_volume_spike: the stimulus list it contributes for one quote
check_volume_spike(symbol, quote) ==
    LET volume == quote.volume
        last_volume == IF last_volumes[symbol] = Absent THEN volume
                       ELSE last_volumes[symbol]
    IN  IF last_volume = 0 THEN <<>>
        ELSE IF last_volume > 0
                /\ (volume - last_volume) * 10 > volume_threshold_x10 * last_volume
        THEN << Stimulus("VOLUME_SPIKE", symbol, "high") >>
        ELSE <<>>

\* A variant of the debouncing test of _check_price_move that forgets the alerts
AlreadyAlerted_never(symbol) == FALSE

\* symbol in self.alerted_symbols
AlreadyAlerted(symbol) == symbol \in alerted_symbols

\* abs(change_pct) > self.price_threshold
SignificantMove(quote) == Abs(quote.change_x10) > price_threshold_x10

\* _check_price_move: the stimulus list it contributes for one quote
check_price_move(symbol, quote) ==
    IF SignificantMove(quote) /\ ~ AlreadyAlerted(symbol)
    THEN << Stimulus("PRICE_MOVE", symbol,
                     IF Abs(quote.change_x10) > 50 THEN "high" ELSE "normal") >>
    ELSE <<>>

\* The quote loop of evaluate over the first k symbols of the watchlist
RECURSIVE QuoteStimuli(_, _)
QuoteStimuli(quotes, k) ==
    IF k = 0 THEN <<>>
    ELSE QuoteStimuli(quotes, k - 1)
         \o check_volume_spike(Watchlist[k], quotes[Watchlist[k]])
         \o check_price_move(Watchlist[k], quotes[Watchlist[k]])

\* _check_positions over a portfolio's positions (a sequence of positions)
RECURSIVE check_positions(_)
check_positions(positions) ==
    IF positions = <<>> THEN <<>>
    ELSE LET pos == Head(positions) IN
         ( IF pos.unrealized_pnl_pct < 0 - 5
           THEN << Stimulus("STOP_TRIGGERED", pos.symbol, "critical") >>
           ELSE IF pos.unrealized_pnl_pct > 10
           THEN << Stimulus("TARGET_REACHED", pos.symbol, "high") >>
           ELSE <<>> )
         \o check_positions(Tail(positions))

\* A variant of _check_risk_limits that adds the 75 % warning to the critical one
check_risk_limits_both(portfolio) ==
    ( IF portfolio.daily_pnl_pct * 10 < 0 - max_daily_loss_pct_x10 * 100
      THEN << Stimulus("RISK_WARNING", "", "critical") >> ELSE <<>> )
    \o ( IF portfolio.daily_pnl_pct * 10 < 0 - max_daily_loss_pct_x10 * 75
         THEN << Stimulus("RISK_WARNING", "", "high") >> ELSE <<>> )

\* portfolio["daily_pnl_pct"] / 100, the fraction validate_trade is given, in
\* basis points: get_portfolio reports daily_pnl_pct as a percentage
daily_pnl_bp_of(portfolio) == portfolio.daily_pnl_pct * 100

\* _check_risk_limits
check_risk_limits(portfolio) ==
    IF portfolio.daily_pnl_pct * 10 < 0 - max_daily_loss_pct_x10 * 100
    THEN << Stimulus("RISK_WARNING", "", "critical") >>
    ELSE IF portfolio.daily_pnl_pct * 10 < 0 - max_daily_loss_pct_x10 * 75
    THEN << Stimulus("RISK_WARNING", "", "high") >>
    ELSE <<>>

\* A variant of evaluate without the test of is_market_open
evaluate_result_always(ms, portfolio) ==
    QuoteStimuli(ms.quotes, Len(Watchlist))
    \o check_positions(portfolio.positions)
    \o check_risk_limits(portfolio)

\* A variant of evaluate that checks the risk limits before the positions
evaluate_result_risk_first(ms, portfolio) ==
    IF ~ ms.is_market_open THEN <<>>
    ELSE QuoteStimuli(ms.quotes, Len(Watchlist))
         \o check_risk_limits(portfolio)
         \o check_positions(portfolio.positions)

\* The list evaluate(market_state, portfolio) returns
evaluate_result(ms, portfolio) ==
    IF ~ ms.is_market_open THEN <<>>
    ELSE QuoteStimuli(ms.quotes, Len(Watchlist))
         \o check_positions(portfolio.positions)
         \o check_risk_limits(portfolio)

\* A quote object that has last and volume but no change_pct attribute
BrokenQuote == [ last |-> 10, volume |-> 300, missing |-> "change_pct" ]

\* _check_price_move reads quote.change_pct of every quote that has a last
\* attribute: AttributeError when the attribute is missing
QuoteRaises(quote) == "missing" \in DOMAIN quote

\* evaluate has no handler around the checks of a quote: the exception of one
\* quote leaves evaluate
evaluate_raises(ms) ==
    ms.is_market_open /\ \E s \in Symbols : QuoteRaises(ms.quotes[s])

\* The place in the watchlist of the first quote whose check raises
FirstRaising(ms) ==
    CHOOSE k \in 1 .. Len(Watchlist) :
        /\ QuoteRaises(ms.quotes[Watchlist[k]])
        /\ \A j \in 1 .. k - 1 : ~ QuoteRaises(ms.quotes[Watchlist[j]])

\* How often PRICE_MOVE for symbol occurs in a stimulus list
PriceMovesIn(list, symbol) ==
    Cardinality({ i \in 1 .. Len(list) :
                    list[i].type = "PRICE_MOVE" /\ list[i].symbol = symbol })

\* evaluate(market_state, portfolio): the evaluator's state after the call
evaluate(ms, portfolio) ==
    /\ market_state' = ms
    /\ stimuli' = IF evaluate_raises(ms) THEN <<>>
                  ELSE evaluate_result(ms, portfolio)
    /\ IF ~ ms.is_market_open
       THEN UNCHANGED <<alerted_symbols, last_prices, last_volumes, price_moves,
                        stale_alerts>>
       ELSE IF evaluate_raises(ms)
       THEN \* the quotes before the raising one were checked in full, the
            \* raising one up to its volume check
            LET k == FirstRaising(ms) IN
            /\ last_volumes' =
                   [ s \in Symbols |-> IF WatchIndex(s) <= k
                                       THEN ms.quotes[s].volume
                                       ELSE last_volumes[s] ]
            /\ last_prices' =
                   [ s \in Symbols |-> IF WatchIndex(s) < k
                                       THEN ms.quotes[s].last
                                       ELSE last_prices[s] ]
            /\ alerted_symbols' =
                   alerted_symbols
                   \cup { s \in Symbols : /\ WatchIndex(s) < k
                                          /\ SignificantMove(ms.quotes[s]) }
            /\ UNCHANGED <<price_moves, stale_alerts>>
       ELSE /\ last_volumes' = [ s \in Symbols |-> ms.quotes[s].volume ]
            /\ last_prices' = [ s \in Symbols |-> ms.quotes[s].last ]
            /\ alerted_symbols' =
                   alerted_symbols \cup { s \in Symbols : SignificantMove(ms.quotes[s]) }
            /\ price_moves' =
                   [ s \in Symbols |->
                       LET n == price_moves[s]
                                + PriceMovesIn(evaluate_result(ms, portfolio), s)
                       IN  IF n > MaxEmits THEN MaxEmits ELSE n ]
            /\ UNCHANGED stale_alerts

\* reset_session()
reset_session ==
    /\ UNCHANGED strategy
    /\ alerted_symbols' = {}
    /\ last_prices' = [ s \in Symbols |-> Absent ]
    /\ last_volumes' = [ s \in Symbols |-> Absent ]
    /\ price_moves' = [ s \in Symbols |-> 0 ]
    /\ stale_alerts' = {}

----------------------------------------------------------------------------
(* SpecStimulus: evaluate and reset_session called in any order *)

Quotes ==
    [ last : { 10 }, change_x10 : { 0 - 60, 0, 25 }, volume : { 100, 300 } ]
    \cup { [ last |-> 10, change_x10 |-> 0, volume |-> 0 ] }

\* A portfolio with one position of the given unrealized_pnl_pct
PortfolioWith(pnl_pct, daily_pnl_pct) ==
    [ positions |-> << [ symbol |-> "0700", unrealized_pnl_pct |-> pnl_pct ] >>,
      daily_pnl_pct |-> daily_pnl_pct ]

Portfolios ==
    { [ positions |-> <<>>, daily_pnl_pct |-> 0 ],
      PortfolioWith(0, 0), PortfolioWith(0 - 6, 0 - 160), PortfolioWith(11, 0 - 250),
      [ positions |-> <<>>, daily_pnl_pct |-> 0 - 200 ],
      [ positions |-> <<>>, daily_pnl_pct |-> 0 - 150 ],
      [ positions |-> <<>>, daily_pnl_pct |-> 0 - 3 ] }

\* The snapshots evaluate is given: of an open market, of a closed market
\* (get_state fetches no quotes then), and closed ones that carry quotes
MarketStates ==
    [ is_market_open : { TRUE }, quotes : [ Symbols -> Quotes ] ]
    \cup { NoMarketState }
    \cup { [ is_market_open |-> FALSE, quotes |-> [ s \in Symbols |-> q ] ] :
              q \in { [ last |-> 10, change_x10 |-> 25, volume |-> 300 ],
                      [ last |-> 10, change_x10 |-> 0 - 60, volume |-> 100 ] } }
    \cup { [ is_market_open |-> TRUE,
             quotes |-> [ s \in Symbols |-> IF s = b THEN BrokenQuote ELSE q ] ] :
              b \in Symbols, q \in { [ last |-> 10, change_x10 |-> 25, volume |-> 300 ],
                      [ last |-> 10, change_x10 |-> 0 - 60, volume |-> 100 ] } }

InitStimulus ==
    /\ InitClock /\ InitSafetyValidator /\ limits = DefaultLimits
    /\ last = Idle("init")
    /\ InitTool /\ InitEvaluator /\ InitLoop /\ InitAlertSender

Evaluate ==
    \E ms \in MarketStates, portfolio \in Portfolios :
        /\ evaluate(ms, portfolio)
        /\ last' = [ Idle("evaluate") EXCEPT
                       !.portfolio = portfolio,
                       !.error = IF evaluate_raises(ms) THEN "AttributeError"
                                 ELSE "" ]
        /\ UNCHANGED <<senderVars, validatorVars, histVars, toolVars, clockVars, pc,
                       session_analysis_done, week_analysis_done, ib_orders,
                       runVars, strategy>>

ResetSession ==
    /\ reset_session
    /\ last' = Idle("reset_session")
    /\ UNCHANGED <<senderVars, validatorVars, histVars, toolVars, clockVars, loopVars>>

NextStimulus == Evaluate \/ ResetSession

SpecStimulus == InitStimulus /\ [][NextStimulus]_vars

----------------------------------------------------------------------------
(* The control loop: AutonomousAgent (agent/main.py) over MarketMonitor       *)
(* (agent/monitor.py), StimulusEvaluator and ExecutionEngine                  *)
(* (agent/execution.py)                                                       *)

\* MarketMonitor._get_session
get_session(t) ==
    IF t < Time(9, 30) THEN "pre_market"
    ELSE IF t < Time(12, 0) THEN "morning"
    ELSE IF t < Time(13, 0) THEN "lunch"
    ELSE IF t < Time(16, 0) THEN "afternoon"
    ELSE "after_hours"

\* StimulusEvaluator.is_week_start, is_week_end
is_week_start(wd, t) == wd = 0 /\ Time(9, 0) <= t /\ t < Time(9, 35)

is_week_end(wd, t) == wd = 4 /\ Time(16, 0) <= t /\ t < Time(16, 5)

\* The quotes MarketMonitor.get_state can bring back while the market is open
CalmQuote == [ last |-> 10, change_x10 |-> 0, volume |-> 100 ]
MovingQuote == [ last |-> 10, change_x10 |-> 25, volume |-> 300 ]

LoopQuotes ==
    { [ s \in Symbols |-> CalmQuote ],
      [ s \in Symbols |-> IF s = Watchlist[1] THEN MovingQuote ELSE CalmQuote ],
      [ s \in Symbols |-> MovingQuote ] }

\* get_quote answers a failed fetch with a Quote of zeros, so the snapshot of
\* a tick in which every quote fetch failed carries these
FailedQuotes == [ s \in Symbols |-> NoQuote ]

\* MarketMonitor.get_state at time t, the gateway answering with one of quotes
get_state_of(t, quotes) ==
    IF get_session(t) \in { "morning", "afternoon" }
    THEN { [ is_market_open |-> TRUE, quotes |-> q ] : q \in quotes }
    ELSE { NoMarketState }

get_state(t) == get_state_of(t, LoopQuotes)

\* ExecutionEngine.get_portfolio: _get_positions reports every position with
\* unrealized_pnl_pct 0
LoopPortfolios ==
    { [ positions |-> <<>>, daily_pnl_pct |-> 0 ], PortfolioWith(0, 0 - 250) }

\* get_portfolio without a gateway connection: _ensure_connected raises
NoPortfolio == [ positions |-> <<>>, daily_pnl_pct |-> 0 - 100000 ]

\* A variant of run that starts a tick without awaiting the one before
TickReturned_any(p) == p \in { "idle", "process", "temporal" }

\* await self.loop_iteration(): run is at the loop's test only when the
\* awaited tick has returned or its exception has been handled
TickReturned(p) == p = "idle"

\* A variant of the loop's test that never ends the loop
ShouldContinue_always(r) == TRUE

\* while self.running
ShouldContinue(r) == r

\* What shutdown releases: executor.disconnect, monitor.disconnect, memory.close
Collaborators == { "executor", "monitor", "memory" }

\* loop_iteration up to the stimulus loop: get_state, get_portfolio,
\* get_recent_context, the assignment of evaluator.strategy, evaluate, for the
\* snapshots, portfolios and strategies the collaborators can answer with
loop_iteration(snapshots, portfolios, strategies) ==
    /\ TickReturned(pc)
    /\ ShouldContinue(running)
    /\ \E ms \in snapshots, portfolio \in portfolios, st \in strategies :
          IF portfolio = NoPortfolio
          THEN /\ pc' = "backoff"
               /\ last' = [ Idle("loop_iteration") EXCEPT
                              !.error = "ConnectionError",
                              !.step.fetch = "portfolio_failed" ]
               /\ UNCHANGED <<evalVars, stimuli, market_state>>
          ELSE /\ strategy' = st
               /\ evaluate(ms, portfolio)
               /\ pc' = IF evaluate_result(ms, portfolio) = <<>> THEN "temporal"
                                                               ELSE "process"
               /\ last' = [ Idle("loop_iteration") EXCEPT
                              !.step.fetch = IF ms.is_market_open
                                                /\ ms.quotes = FailedQuotes
                                             THEN "quotes_failed" ELSE "ok",
                              !.step.evaluated = TRUE,
                              !.portfolio = portfolio ]
    /\ UNCHANGED <<senderVars, validatorVars, histVars, toolVars, clockVars,
                   session_analysis_done, week_analysis_done, ib_orders, runVars>>

\* The TacticalDecision the thinking engine may return (entry_price 0 models None)
Decision(action, entry_price) ==
    [ action |-> action, symbol |-> "0700", entry_price |-> entry_price,
      size_percent |-> 10 ]

Decisions ==
    { Decision("HOLD", 0), Decision("BUY", 20), Decision("BUY", 0),
      Decision("SELL", 20), Decision("CLOSE", 0), Decision("REDUCE", 0) }

\* ExecutionResult(success, status) and the order ib.placeOrder received, if any
ExecutionResult(success, status, order) ==
    [ success |-> success, status |-> status, order |-> order ]

NoOrder == [ action |-> "", quantity |-> 0, limit_price |-> 0 ]

\* _execute_entry with the equity get_portfolio reports and the gateway's status
execute_entry(side, d, equity, status) ==
    IF equity <= 0 \/ d.entry_price = 0
    THEN ExecutionResult(FALSE, "", NoOrder)
    ELSE LET entry_value == (equity * d.size_percent) \div 100
             quantity == ((entry_value \div d.entry_price) \div 100) * 100
         IN  IF quantity < 100
             THEN ExecutionResult(FALSE, "", NoOrder)
             ELSE ExecutionResult(status \in { "Filled", "Submitted" }, status,
                                  [ action |-> IF side = "buy" THEN "BUY" ELSE "SELL",
                                    quantity |-> quantity,
                                    limit_price |-> d.entry_price ])

\* _close_position with the share count of the position held (0: none)
close_position(held, status) ==
    IF held = 0
    THEN ExecutionResult(FALSE, "", NoOrder)
    ELSE ExecutionResult(status = "Filled", status,
                         [ action |-> IF held > 0 THEN "SELL" ELSE "BUY",
                           quantity |-> Abs(held), limit_price |-> 0 ])

\* ExecutionEngine.execute
execute(d, equity, held, status) ==
    IF d.action = "BUY" THEN execute_entry("buy", d, equity, status)
    ELSE IF d.action = "SELL" THEN execute_entry("sell", d, equity, status)
    ELSE IF d.action = "CLOSE" THEN close_position(held, status)
    ELSE ExecutionResult(FALSE, "", NoOrder)

\* What the gateway reports while a decision is executed: the account's
\* equity, the shares held in the decision's symbol, the placed order's status
Gateway(equity, held, status) ==
    [ equity |-> equity, held |-> held, status |-> status ]

Gateways ==
    { Gateway(0, 0, "Filled"), Gateway(200000, 0, "Filled"),
      Gateway(200000, 1000, "Filled"), Gateway(200000, 1000, "Submitted"),
      Gateway(200000, 1000, "Cancelled") }

\* Stimulus.data["action_required"] as _check_risk_limits fills it: the key is
\* set for the critical warning only ("" models its absence)
action_required(s) ==
    IF s.type = "RISK_WARNING"
    THEN IF s.urgency = "critical" THEN "CLOSE_ALL" ELSE ""
    ELSE ""

\* The answer of the oracle call in tactical_think: how the call ended, the
\* recommendation its text carries and the needs_human flag of the text
OracleAnswer(kind, d, attention) ==
    [ kind |-> kind, decision |-> d, needs_human_attention |-> attention ]

OracleAnswers ==
    { OracleAnswer("ok", d, FALSE) : d \in Decisions }
    \cup { OracleAnswer("ok", Decision("HOLD", 0), TRUE),
           OracleAnswer("ok", Decision("BUY", 20), TRUE),
           OracleAnswer("api_error", Decision("HOLD", 0), FALSE),
           OracleAnswer("malformed", Decision("BUY", 20), TRUE) }

\* A variant of tactical_think that takes the recommendation out of whatever
\* text came back
tactical_think_lenient(answer) ==
    [ decision |-> answer.decision,
      needs_human_attention |-> answer.needs_human_attention ]

\* tactical_think with _parse_tactical_response: HOLD on any exception
tactical_think(answer) ==
    IF answer.kind = "ok"
    THEN [ decision |-> answer.decision,
           needs_human_attention |-> answer.needs_human_attention ]
    ELSE [ decision |-> Decision("HOLD", 0), needs_human_attention |-> FALSE ]

\* The calls of process_stimulus that can raise: the repository's log_decision
\* and update_decision_execution, and _ensure_connected in execute
Faults == { "none", "log_decision", "execute", "update_decision_execution" }

\* MemorySystem.log_decision: the table with the new row, whose id is its index
log_decision(table) == Append(table, [ executed |-> FALSE ])

\* A variant of update_decision_execution that writes the outcome as a new row
update_decision_execution_insert(table, decision_id) ==
    Append(table, [ executed |-> TRUE ])

\* MemorySystem.update_decision_execution(decision_id, result)
update_decision_execution(table, decision_id) ==
    [ table EXCEPT ![decision_id].executed = TRUE ]

\* How the configured channel answers a send: the webhook's post or the SMTP
\* session succeeds, or raises (HTTP error, timeout, refused login)
Channels == { "ok", "webhook_error", "smtp_error" }

\* A variant of AlertSystem.send whose channel errors reach the caller
send_raises_on_failure(channel) == channel # "ok"

\* AlertSystem.send: _send_webhook and _send_email catch every Exception of
\* their channel and log it, so send returns whatever the channel did
send_raises(channel) == FALSE

\* if decision.action not in ("HOLD", "WAIT", "SKIP")
IsActionable(action) == action \notin { "HOLD", "WAIT", "SKIP" }

\* process_stimulus for the next stimulus of the list: tactical_think,
\* log_decision, then execute and update_decision_execution unless the action
\* is HOLD, WAIT or SKIP, then attention_needed.  An exception of a call leaves
\* loop_iteration for the handler in run.  answers and faults are what the
\* oracle can answer and which calls can raise.
process_stimulus(answers, faults) ==
    /\ pc = "process"
    /\ \E answer \in answers, g \in Gateways, fault \in faults,
          channel \in Channels :
          LET stimulus == Head(stimuli)
              thought == tactical_think(answer)
              d == thought.decision
              decision_id == Len(decisions) + 1
              acts == IsActionable(d.action)
              failed == IF fault = "log_decision" THEN "log_decision"
                        ELSE IF acts /\ fault # "none" THEN fault
                        ELSE ""
              attention == failed = "" /\ thought.needs_human_attention
              raised == IF attention /\ send_raises(channel)
                        THEN "attention_needed" ELSE failed
              called == acts /\ fault # "log_decision"
              result == IF called /\ fault # "execute"
                        THEN execute(d, g.equity, g.held, g.status)
                        ELSE ExecutionResult(FALSE, "", NoOrder)
              logged == log_decision(decisions)
          IN  /\ stimulus.level = "TACTICAL"
              /\ ~ attention => channel = "ok"
              /\ fault \in { "execute", "update_decision_execution" } => acts
              /\ (fault \in { "log_decision", "execute" } \/ ~ acts)
                    => g = Gateway(0, 0, "Filled")
              /\ fault # "log_decision" => Len(decisions) < MaxDecisions
              /\ result.order # NoOrder => Len(ib_orders) < MaxIbOrders
              /\ ib_orders' = IF result.order # NoOrder
                              THEN Append(ib_orders, result.order) ELSE ib_orders
              /\ decisions' =
                     IF fault = "log_decision" THEN decisions
                     ELSE IF called /\ failed = ""
                     THEN update_decision_execution(logged, decision_id)
                     ELSE logged
              /\ last' = [ Idle("process_stimulus") EXCEPT
                             !.status = result.status,
                             !.error = IF raised = "" THEN ""
                                       ELSE IF raised = "execute"
                                       THEN "ConnectionError"
                                       ELSE IF raised = "attention_needed"
                                       THEN "NotifierError"
                                       ELSE "RepositoryError",
                             !.step = [ NoStep EXCEPT
                                 !.stimulus = stimulus,
                                 !.oracle = IF answer.kind = "ok" THEN "ok"
                                            ELSE "failed",
                                 !.action = d.action,
                                 !.logged = IF fault = "log_decision" THEN 0
                                            ELSE decision_id,
                                 !.updated = IF called /\ failed = ""
                                             THEN decision_id ELSE 0,
                                 !.executed = called,
                                 !.success = result.success,
                                 !.alerts = IF attention
                                            THEN { "attention_needed" }
                                            ELSE {},
                                 !.channel = IF attention THEN channel
                                             ELSE "" ] ]
              /\ stimuli' = IF raised = "" THEN Tail(stimuli) ELSE <<>>
              /\ pc' = IF raised # "" THEN "backoff"
                       ELSE IF Tail(stimuli) = <<>> THEN "temporal"
                       ELSE "process"
    /\ UNCHANGED <<senderVars, validatorVars, histVars, toolVars, clockVars, evalVars,
                   session_analysis_done, week_analysis_done, market_state,
                   running, released, analyses,
                   analysed_window>>

\* The calls of _check_temporal_triggers that can raise
AnalysisFaults == { "none", "end_of_session_analysis", "weekly_strategic_review" }

\* _check_temporal_triggers, which ends loop_iteration; faults are the calls
\* that can raise
check_temporal_triggers(faults) ==
    /\ pc = "temporal"
    /\ \E fault \in faults :
          LET runs_session == is_session_end(tod) /\ ~ session_analysis_done
              session_raised == runs_session /\ fault = "end_of_session_analysis"
              runs_week == /\ ~ session_raised
                           /\ is_week_end(Weekday(day), tod)
                           /\ ~ week_analysis_done
              week_raised == runs_week /\ fault = "weekly_strategic_review"
          IN  /\ fault = "end_of_session_analysis" => runs_session
              /\ fault = "weekly_strategic_review" => runs_week
              /\ session_analysis_done' =
                     IF session_raised THEN session_analysis_done
                     ELSE IF is_session_start(tod) THEN FALSE
                     ELSE IF runs_session THEN TRUE
                     ELSE session_analysis_done
              /\ week_analysis_done' =
                     IF session_raised \/ week_raised THEN week_analysis_done
                     ELSE IF is_week_start(Weekday(day), tod) THEN FALSE
                     ELSE IF runs_week THEN TRUE
                     ELSE week_analysis_done
              /\ analyses' =
                     IF runs_session
                     THEN (IF analyses < MaxAnalyses THEN analyses + 1
                           ELSE analyses)
                     ELSE IF is_session_start(tod) THEN 0
                     ELSE analyses
              /\ analysed_window' = (runs_session \/ analysed_window)
              /\ pc' = IF session_raised \/ week_raised THEN "backoff" ELSE "idle"
              /\ last' = [ Idle("check_temporal_triggers") EXCEPT
                             !.error = IF session_raised \/ week_raised
                                       THEN "AnalysisError" ELSE "",
                             !.step.analysis =
                                 IF session_raised THEN "raised"
                                 ELSE IF runs_session THEN "done" ELSE "" ]
    /\ UNCHANGED <<senderVars, validatorVars, histVars, toolVars, clockVars, evalVars,
                   stimuli, ib_orders, market_state, running, decisions,
                   released>>

\* A variant of run's handler that leaves the loop for shutdown
backoff_stop ==
    /\ pc = "backoff"
    /\ pc' = "stopped"
    /\ released' = Collaborators
    /\ last' = [ Idle("backoff") EXCEPT !.step.alerts = { "error" } ]
    /\ UNCHANGED <<senderVars, validatorVars, histVars, toolVars, clockVars, evalVars,
                   stimuli, session_analysis_done, week_analysis_done,
                   ib_orders, market_state, running, decisions, analyses,
                   analysed_window>>

\* run's handler of an exception of loop_iteration: alerts.error, sleep(60),
\* and back to the loop's test; an exception of alerts.error would leave run
backoff ==
    /\ pc = "backoff"
    /\ \E channel \in Channels :
          /\ pc' = IF send_raises(channel) THEN "crashed" ELSE "idle"
          /\ last' = [ Idle("backoff") EXCEPT
                         !.step.alerts = { "error" },
                         !.step.channel = channel,
                         !.error = IF send_raises(channel)
                                   THEN "NotifierError" ELSE "" ]
    /\ UNCHANGED <<senderVars, validatorVars, histVars, toolVars, clockVars, evalVars,
                   stimuli, session_analysis_done, week_analysis_done,
                   ib_orders, market_state, runVars>>

\* handle_signal, at any moment of a running agent
handle_signal ==
    /\ running
    /\ running' = FALSE
    /\ last' = Idle("handle_signal")
    /\ UNCHANGED <<senderVars, validatorVars, histVars, toolVars, clockVars, evalVars,
                   stimuli, pc, session_analysis_done, week_analysis_done,
                   ib_orders, market_state, decisions, released, analyses,
                   analysed_window>>

\* The loop's test fails: run leaves the loop and calls shutdown
shutdown ==
    /\ pc = "idle"
    /\ ~ ShouldContinue(running)
    /\ pc' = "stopped"
    /\ released' = Collaborators
    /\ \E channel \in Channels :
          last' = [ Idle("shutdown") EXCEPT
                      !.step.alerts = { "shutdown" },
                      !.step.channel = channel,
                      !.error = IF send_raises(channel)
                                THEN "NotifierError" ELSE "" ]
    /\ UNCHANGED <<senderVars, validatorVars, histVars, toolVars, clockVars, evalVars,
                   stimuli, session_analysis_done, week_analysis_done,
                   ib_orders, market_state, running, decisions, analyses,
                   analysed_window>>

InitAgent ==
    /\ InitClock /\ InitSafetyValidator /\ limits = DefaultLimits
    /\ last = Idle("init")
    /\ InitTool /\ InitEvaluator /\ InitLoop /\ InitAlertSender

----------------------------------------------------------------------------
(* Spec: the agent over the trading calendar, its collaborators answering    *)

HealthyAnswers == { OracleAnswer("ok", d, FALSE) : d \in Decisions }

LoopIteration ==
    loop_iteration(get_state(tod), LoopPortfolios, { InitialStrategy })

ProcessStimulus == process_stimulus(HealthyAnswers, { "none" })

CheckTemporalTriggers == check_temporal_triggers({ "none" })

Next ==
    \/ Tick
    \/ LoopIteration
    \/ ProcessStimulus
    \/ CheckTemporalTriggers

Spec == InitAgent /\ [][Next]_vars

----------------------------------------------------------------------------
(* SpecRun: the run loop at one moment of an open session, with collaborators *)
(* that can fail, the shutdown signal and shutdown                            *)

\* 15:59: the afternoon session is open and is_session_end holds
RunTime == Time(15, 59)

\* The quotes of a tick: calm, the first symbol moving, or every fetch failed
RunQuotes ==
    { [ s \in Symbols |-> CalmQuote ],
      [ s \in Symbols |-> IF s = Watchlist[1] THEN MovingQuote ELSE CalmQuote ],
      FailedQuotes }

InitRun ==
    /\ day = 0 /\ tod = RunTime
    /\ InitSafetyValidator /\ limits = DefaultLimits
    /\ last = Idle("init")
    /\ InitTool /\ InitEvaluator /\ InitLoop /\ InitAlertSender

RunIteration ==
    loop_iteration(get_state_of(tod, RunQuotes),
                   LoopPortfolios \cup { NoPortfolio }, { InitialStrategy })

RunStimulus == process_stimulus(OracleAnswers, Faults)

RunTemporalTriggers == check_temporal_triggers(AnalysisFaults)

NextRun ==
    \/ RunIteration
    \/ RunStimulus
    \/ RunTemporalTriggers
    \/ backoff
    \/ handle_signal
    \/ shutdown

SpecRun == InitRun /\ [][NextRun]_vars

----------------------------------------------------------------------------
(* SpecStopFair: the run loop and its shutdown on a market where 0700 moves,  *)
(* the oracle answering HOLD or BUY or failing, every call able to raise      *)

StopQuotes ==
    { [ s \in Symbols |-> IF s = Watchlist[1] THEN MovingQuote ELSE CalmQuote ] }

StopAnswers ==
    { OracleAnswer("ok", Decision("HOLD", 0), FALSE),
      OracleAnswer("ok", Decision("BUY", 20), FALSE),
      OracleAnswer("api_error", Decision("HOLD", 0), FALSE) }

StopIteration ==
    loop_iteration(get_state_of(tod, StopQuotes),
                   LoopPortfolios \cup { NoPortfolio }, { InitialStrategy })

StopStimulus == process_stimulus(StopAnswers, Faults)

StopTemporalTriggers == check_temporal_triggers(AnalysisFaults)

NextStop ==
    \/ StopIteration
    \/ StopStimulus
    \/ StopTemporalTriggers
    \/ backoff
    \/ handle_signal
    \/ shutdown

\* The event loop runs the coroutine of run whenever it can go on; nothing
\* obliges a signal to arrive
SpecStopFair ==
    /\ InitRun /\ [][NextStop]_vars
    /\ WF_vars(StopIteration) /\ WF_vars(StopStimulus)
    /\ WF_vars(StopTemporalTriggers) /\ WF_vars(backoff) /\ WF_vars(shutdown)

----------------------------------------------------------------------------
(* SpecMain: main() around run: the loop of SpecStopFair, a cancellation      *)
(* that leaves run from its handler, and the finally clause of main           *)

\* The task is cancelled while run's handler awaits alerts.error or sleep(60):
\* the CancelledError is raised inside the except clause, so neither clause of
\* the try catches it and it leaves run before run's own shutdown call
cancel_in_handler ==
    /\ pc = "backoff"
    /\ pc' = "crashed"
    /\ last' = [ Idle("backoff") EXCEPT !.error = "CancelledError" ]
    /\ UNCHANGED <<senderVars, validatorVars, histVars, toolVars, clockVars, evalVars,
                   stimuli, session_analysis_done, week_analysis_done,
                   ib_orders, market_state, runVars>>

\* main: try: await agent.run() ... finally: await agent.shutdown(), reached
\* when run has returned (after its own shutdown) or has raised
main_finally ==
    /\ pc \in { "stopped", "crashed" }
    /\ pc' = "exited"
    /\ running' = FALSE
    /\ released' = Collaborators
    /\ \E channel \in Channels :
          last' = [ Idle("shutdown") EXCEPT
                      !.step.alerts = { "shutdown" },
                      !.step.channel = channel,
                      !.error = IF send_raises(channel)
                                THEN "NotifierError" ELSE "" ]
    /\ UNCHANGED <<senderVars, validatorVars, histVars, toolVars, clockVars, evalVars,
                   stimuli, session_analysis_done, week_analysis_done,
                   ib_orders, market_state, decisions, analyses,
                   analysed_window>>

NextMain ==
    \/ StopIteration
    \/ StopStimulus
    \/ StopTemporalTriggers
    \/ backoff
    \/ handle_signal
    \/ shutdown
    \/ cancel_in_handler
    \/ main_finally

SpecMain == InitRun /\ [][NextMain]_vars

----------------------------------------------------------------------------
(* SpecOrder: ticks of an open session in which both symbols can move and     *)
(* spike, over portfolios as evaluate accepts them: two positions in either   *)
(* order with a loss, a gain and a daily loss beyond the limit, and strategy   *)
(* parameters that a strategic update may have replaced                       *)

OrderQuotes ==
    [ Symbols -> { CalmQuote, [ last |-> 10, change_x10 |-> 25, volume |-> 300 ] } ]

\* A position dict of portfolio["positions"]
Position(symbol, pnl_pct) == [ symbol |-> symbol, unrealized_pnl_pct |-> pnl_pct ]

OrderPortfolios ==
    { [ positions |-> <<>>, daily_pnl_pct |-> 0 ],
      [ positions |-> << Position("0700", 0 - 6), Position("0005", 11) >>,
        daily_pnl_pct |-> 0 - 250 ],
      [ positions |-> << Position("0005", 11), Position("0700", 0 - 6) >>,
        daily_pnl_pct |-> 0 ] }

OrderAnswers == { OracleAnswer("ok", Decision("HOLD", 0), FALSE) }

\* What get_recent_context answers with: the strategy in force, which a
\* strategic update may have replaced
Strategies == { InitialStrategy, RevisedStrategy }

OrderIteration ==
    loop_iteration(get_state_of(tod, OrderQuotes), OrderPortfolios, Strategies)

OrderStimulus == process_stimulus(OrderAnswers, { "none", "log_decision" })

OrderTemporalTriggers == check_temporal_triggers({ "none" })

NextOrder ==
    \/ OrderIteration
    \/ OrderStimulus
    \/ OrderTemporalTriggers
    \/ backoff

SpecOrder == InitRun /\ [][NextOrder]_vars

----------------------------------------------------------------------------
(* SpecCalm: the agent over the trading calendar on a market without stimuli, *)
(* the analyses of _check_temporal_triggers being able to fail                *)

CalmPortfolios == { [ positions |-> <<>>, daily_pnl_pct |-> 0 ] }

CalmIteration ==
    loop_iteration(get_state_of(tod, { [ s \in Symbols |-> CalmQuote ] }),
                   CalmPortfolios, { InitialStrategy })

CalmTemporalTriggers == check_temporal_triggers(AnalysisFaults)

NextCalm ==
    \/ Tick
    \/ CalmIteration
    \/ CalmTemporalTriggers
    \/ backoff

SpecCalm == InitAgent /\ [][NextCalm]_vars

----------------------------------------------------------------------------
(* SpecCloseAll: ExecutionEngine.close_all_positions on the positions the     *)
(* gateway reports, each close meeting its own outcome                        *)

\* A position dict of _get_positions
HeldPosition(symbol, quantity) == [ symbol |-> symbol, quantity |-> quantity ]

\* What one _close_position call meets: the market order is filled or
\* cancelled, the position is gone when the call fetches the positions again,
\* or a call to the gateway raises inside its try block
CloseOutcomes == { "Filled", "Cancelled", "gone", "raises" }

\* The ExecutionResult one _close_position(symbol, reason) call returns; its
\* except clause turns every exception into a result with success = False
close_result(pos, outcome) ==
    [ symbol |-> pos.symbol,
      result |-> IF outcome = "raises" THEN ExecutionResult(FALSE, "", NoOrder)
                 ELSE close_position(IF outcome = "gone" THEN 0 ELSE pos.quantity,
                                     outcome) ]

\* A variant of the loop of close_all_positions that ends at the first close
\* that did not succeed
RECURSIVE close_all_results_until_failure(_, _)
close_all_results_until_failure(positions, outcomes) ==
    IF positions = <<>> THEN <<>>
    ELSE LET pos == Head(positions)
             result == close_result(pos, Head(outcomes))
         IN  IF pos.quantity = 0
             THEN close_all_results_until_failure(Tail(positions), Tail(outcomes))
             ELSE IF ~ result.result.success THEN << result >>
             ELSE << result >>
                    \o close_all_results_until_failure(Tail(positions),
                                                       Tail(outcomes))

\* The list close_all_positions returns: for pos in positions, one
\* _close_position result for each pos with a quantity other than 0
RECURSIVE close_all_results(_, _)
close_all_results(positions, outcomes) ==
    IF positions = <<>> THEN <<>>
    ELSE LET pos == Head(positions)
             rest == close_all_results(Tail(positions), Tail(outcomes))
         IN  IF pos.quantity # 0
             THEN << close_result(pos, Head(outcomes)) >> \o rest
             ELSE rest

\* The market orders the closes of a list of results have placed
RECURSIVE OrdersOf(_)
OrdersOf(results) ==
    IF results = <<>> THEN <<>>
    ELSE IF Head(results).result.order # NoOrder
    THEN << Head(results).result.order >> \o OrdersOf(Tail(results))
    ELSE OrdersOf(Tail(results))

\* The positions _get_positions can report, in the gateway's order
HeldSymbols == { << "0700", "0005", "0941" >>, << "0941", "0700", "0005" >> }

HeldQuantities == { 0, 1000, 0 - 500 }

Snapshots ==
    { [ i \in 1 .. 3 |-> HeldPosition(syms[i], q[i]) ] :
        syms \in HeldSymbols, q \in [ 1 .. 3 -> HeldQuantities ] }
    \cup { <<>> }

\* close_all_positions(reason), called once on a connected engine
close_all_positions ==
    /\ last.op = "init"
    /\ \E positions \in Snapshots :
       \E outcomes \in [ 1 .. Len(positions) -> CloseOutcomes ] :
          LET results == close_all_results(positions, outcomes)
          IN  /\ \A i \in 1 .. Len(positions) :
                    positions[i].quantity = 0 => outcomes[i] = "gone"
              /\ ib_orders' = ib_orders \o OrdersOf(results)
              /\ last' = [ Idle("close_all_positions") EXCEPT
                             !.snapshot = positions, !.closes = results ]
    /\ UNCHANGED <<senderVars, validatorVars, histVars, toolVars, clockVars,
                   evalVars, stimuli, pc, session_analysis_done,
                   week_analysis_done, market_state, runVars>>

NextCloseAll == close_all_positions

SpecCloseAll == InitRun /\ [][NextCloseAll]_vars

----------------------------------------------------------------------------
(* SpecSender: AlertSender (alerts.py), its caller and its worker threads     *)

\* Everything but the AlertSender
agentVars == <<validatorVars, histVars, toolVars, clockVars, evalVars,
               stimuli, pc, session_analysis_done, week_analysis_done,
               ib_orders, market_state, running, decisions, released,
               analyses, analysed_window, last>>

\* Thread.is_alive(): started and not yet returned from _worker_loop
is_alive(w) == threads[w].pc \in { "test", "get", "sending" }

\* start(): if self._worker is not None and self._worker.is_alive(): return
HasLiveWorker(wk) == wk # None /\ is_alive(wk)

\* The thread the next Thread(...) creates
NewWorker == CHOOSE w \in Workers :
                /\ threads[w].pc = "unborn"
                /\ \A v \in Workers : threads[v].pc = "unborn" => w <= v

\* start() as the state it leaves: nothing when the worker is alive, otherwise
\* _running = True and a new thread at the head of _worker_loop
Started ==
    IF HasLiveWorker(worker)
    THEN [ running |-> sender_running, worker |-> worker, threads |-> threads ]
    ELSE [ running |-> TRUE, worker |-> NewWorker,
           threads |-> [ threads EXCEPT ![NewWorker].pc = "test" ] ]

CanStart == HasLiveWorker(worker) \/ \E w \in Workers : threads[w].pc = "unborn"

\* start()
start ==
    /\ caller = "idle"
    /\ CanStart
    /\ sender_running' = Started.running
    /\ worker' = Started.worker
    /\ threads' = Started.threads
    /\ UNCHANGED <<agentVars, queue, caller, enqueued, at_stop, handed>>

\* send(severity, subject, message): start() unless _running, then put
send(alert) ==
    /\ caller = "idle"
    /\ alert \notin enqueued
    /\ ~ sender_running => CanStart
    /\ sender_running' = IF sender_running THEN TRUE ELSE Started.running
    /\ worker' = IF sender_running THEN worker ELSE Started.worker
    /\ threads' = IF sender_running THEN threads ELSE Started.threads
    /\ queue' = Append(queue, alert)
    /\ enqueued' = enqueued \cup { alert }
    /\ UNCHANGED <<agentVars, caller, at_stop, handed>>

\* stop() up to its join: _running = False and, with a worker, the None item
stop ==
    /\ caller = "idle"
    /\ sender_running' = FALSE
    /\ at_stop' = enqueued
    /\ IF worker # None
       THEN queue' = Append(queue, None) /\ caller' = "joining"
       ELSE UNCHANGED <<queue, caller>>
    /\ UNCHANGED <<agentVars, worker, threads, enqueued, handed>>

\* self._worker.join(timeout=5) returns and stop() clears _worker: the worker
\* has terminated, or the five seconds have passed while it is still inside
\* _send_email (a worker at the loop's test or in get moves on within the
\* second of its get timeout)
join ==
    /\ caller = "joining"
    /\ threads[worker].pc \in { "dead", "sending" }
    /\ worker' = None
    /\ caller' = "idle"
    /\ UNCHANGED <<agentVars, queue, sender_running, threads, enqueued, at_stop, handed>>

\* _worker_loop of thread w, one step: the test of while self._running
worker_test(w) ==
    /\ threads[w].pc = "test"
    /\ threads' = [ threads EXCEPT
                      ![w].pc = IF sender_running THEN "get" ELSE "dead" ]
    /\ UNCHANGED <<agentVars, queue, worker, sender_running, caller, enqueued, at_stop,
                   handed>>

\* item = self._queue.get(timeout=1): None breaks the loop, an alert is handed
\* to _send_email, and an empty queue raises Empty, which the loop's except
\* clause turns into the next test
worker_get(w) ==
    /\ threads[w].pc = "get"
    /\ IF queue = <<>>
       THEN /\ threads' = [ threads EXCEPT ![w].pc = "test" ]
            /\ UNCHANGED <<queue, handed>>
       ELSE /\ queue' = Tail(queue)
            /\ threads' = [ threads EXCEPT
                              ![w] = IF Head(queue) = None
                                     THEN [ pc |-> "dead", item |-> None ]
                                     ELSE [ pc |-> "sending",
                                            item |-> Head(queue) ] ]
            /\ handed' = IF Head(queue) = None THEN handed
                         ELSE handed \cup { Head(queue) }
    /\ UNCHANGED <<agentVars, worker, sender_running, caller, enqueued, at_stop>>

\* _send_email returns (it catches its own exceptions) and the loop goes on
worker_sent(w) ==
    /\ threads[w].pc = "sending"
    /\ threads' = [ threads EXCEPT ![w] = [ pc |-> "test", item |-> None ] ]
    /\ UNCHANGED <<agentVars, queue, worker, sender_running, caller, enqueued, at_stop,
                   handed>>

NextSender ==
    \/ start
    \/ \E alert \in Alerts : send(alert)
    \/ stop
    \/ join
    \/ \E w \in Workers : worker_test(w)
    \/ \E w \in Workers : worker_get(w)
    \/ \E w \in Workers : worker_sent(w)

SpecSender == InitRun /\ [][NextSender]_vars

----------------------------------------------------------------------------
(* Claims about validate_trade as a function of its arguments (SpecValidate) *)

Validated == last.op = "validate_trade"

\* The reasons each check of validate_trade rejects with, by its number in the
\* documented order (1 market-open ... 13 take-profit direction)
ReasonsOf(k) ==
    CASE k = 1 -> { "Market closed: Weekend",
                    "Market closed: Lunch break (12:00-13:00)",
                    "Market closed: Before market open",
                    "Market closed: After market close" }
      [] k = 2 -> { "Quantity must be multiple of lot size (board lot)" }
      [] k = 3 -> { "Daily loss limit reached" }
      [] k = 4 -> { "Maximum positions reached" }
      [] k = 5 -> { "Position too large" }
      [] k = 6 -> { "Position too small" }
      [] k = 7 -> { "Insufficient cash" }
      [] k = 8 -> { "Stop loss must be below entry price for long positions",
                    "Stop loss must be above entry price for short positions" }
      [] k = 9 -> { "Stop loss too wide" }
      [] k = 10 -> { "Risk/reward too low" }
      [] k = 11 -> { "Trade risk too high" }
      [] k = 12 -> { "Daily trade limit reached" }
      [] k = 13 -> { "Take profit must be above entry price for long positions",
                     "Take profit must be below entry price for short positions" }

\* Whether check k, taken on its own, fails for the call recorded in last
FailsAlone(k) ==
    LET p == last.proposal IN
    CASE k = 1 -> MarketClosed(Weekday(day), tod)
      [] k = 2 -> LotSizeViolated(p, limits)
      [] k = 3 -> DailyLossReached(p, limits)
      [] k = 4 -> MaxPositionsReached(p, limits)
      [] k = 5 -> PositionTooLarge(p, limits)
      [] k = 6 -> PositionTooSmall(p, limits)
      [] k = 7 -> InsufficientCash(p)
      [] k = 8 -> StopLossWrongSide(p)
      [] k = 9 -> StopLossTooWide(p, limits)
      [] k = 10 -> RiskRewardTooLow(p, limits)
      [] k = 11 -> TradeRiskTooHigh(p, limits)
      [] k = 12 -> DailyTradeLimitReached(daily_trades, limits)
      [] k = 13 -> TakeProfitWrongSide(p)

FailingChecks == { k \in 1 .. 13 : FailsAlone(k) }

FirstFailing == CHOOSE k \in FailingChecks : \A j \in FailingChecks : k <= j

\* C2: validate_trade never approves a trade whose risk/reward ratio is below
\* min_risk_reward, whose position value exceeds max_position_pct of the
\* portfolio equity, whose stop-loss percentage exceeds max_stop_loss_pct, or
\* while the exchange is closed.  (Stated on the inputs: the position value
\* exceeds the fraction of the equity when position_value > pct * equity.)
C2_NeverApprovesOutsideLimits ==
    (Validated /\ last.result.approved) =>
        LET p == last.proposal IN
        /\ is_market_open(Weekday(day), tod)[1]
        /\ reward_per_share(p) * 10 >= limits.min_risk_reward_x10 * risk_per_share(p)
        /\ risk_per_share(p) > 0
        /\ position_value(p) * 10000 <= limits.max_position_bp * p.portfolio_value
        /\ risk_per_share(p) * 10000 <= limits.max_stop_loss_bp * p.entry_price

\* C3: whenever daily_pnl_pct <= -max_daily_loss_pct, validate_trade returns
\* approved = false, whatever the other arguments, the time and the counter.
C3_DailyLossAlwaysRejects ==
    (Validated /\ last.proposal.daily_pnl_bp <= 0 - limits.max_daily_loss_bp)
        => ~ last.result.approved

\* C3 witness: a trade that passes every other check, made at the loss limit
\* on an open market, has been rejected.
C3_Witness ==
    /\ Validated
    /\ last.proposal.daily_pnl_bp = 0 - limits.max_daily_loss_bp
    /\ FailingChecks = { 3 }
    /\ ~ last.result.approved

\* C4: the rejection reason is that of the first failing check in the order
\* 1..13, and the trade is approved exactly when no check fails.
C4_FirstFailingCheckDecides ==
    Validated =>
        IF FailingChecks = {}
        THEN last.result.approved /\ last.result.reason = "All risk checks passed"
        ELSE ~ last.result.approved /\ last.result.reason \in ReasonsOf(FirstFailing)

\* C4 witness: the two last checks (daily trade count, take-profit direction)
\* both fail and nothing before them does; the reason is the daily trade count.
C4_Witness ==
    /\ Validated
    /\ FailingChecks = { 12, 13 }
    /\ last.result.reason = "Daily trade limit reached"

\* C24: a quantity that is not a multiple of the lot size is rejected by
\* validate_trade whatever the other arguments are, and on an open market
\* (where check 1 lets the call through) the reason is the lot-size reason
\* whatever entry, stop, target, portfolio value, cash, daily P&L and position
\* count are.
C24_OddLotRejected ==
    (Validated /\ last.proposal.quantity % limits.lot_size # 0) =>
        /\ ~ last.result.approved
        /\ is_market_open(Weekday(day), tod)[1] =>
               last.result.reason
                   = "Quantity must be multiple of lot size (board lot)"

\* C24 witness: 150 shares with lot size 100 on an open market, with a daily
\* loss beyond the limit and the maximum of positions held, rejected for the
\* lot size
C24_Witness ==
    /\ Validated
    /\ last.proposal.quantity = 150 /\ limits.lot_size = 100
    /\ { 3, 4 } \subseteq FailingChecks
    /\ is_market_open(Weekday(day), tod)[1]
    /\ last.result.reason = "Quantity must be multiple of lot size (board lot)"

\* -max_daily_loss_pct < daily_pnl_pct <= -warning_loss_pct
InWarningBand(p) ==
    /\ 0 - limits.max_daily_loss_bp < p.daily_pnl_bp
    /\ p.daily_pnl_bp <= 0 - limits.warning_loss_bp

\* C25: with daily_pnl_pct between the hard limit and the warning level
\* validate_trade does not reject for the daily loss; once the call is past
\* the market and lot-size checks the verdict, approved or not, is that of the
\* remaining checks and carries the approaching-limit warning; above the
\* warning level no verdict carries it.  get_conservative_mode_warning answers
\* with a message for exactly that band.
C25_WarningBand ==
    Validated =>
        LET p == last.proposal
            r == last.result
            past == { 1, 2 } \cap FailingChecks = {}
        IN  /\ InWarningBand(p) =>
                  /\ r.reason # "Daily loss limit reached"
                  /\ past =>
                        /\ r.warnings = { "Warning: Approaching daily loss limit" }
                        /\ r.approved <=> FailingChecks = {}
            /\ p.daily_pnl_bp > 0 - limits.warning_loss_bp => r.warnings = {}
            /\ get_conservative_mode_warning(p.daily_pnl_bp, limits) # ""
                  <=> InWarningBand(p)

\* C25 witness: a trade at exactly the warning level, approved with the warning
C25_Witness ==
    /\ Validated
    /\ last.proposal.daily_pnl_bp = 0 - limits.warning_loss_bp
    /\ last.result.approved
    /\ last.result.warnings = { "Warning: Approaching daily loss limit" }

\* The metrics of a verdict
Metrics ==
    { "position_value", "portfolio_pct", "risk_amount", "risk_pct",
      "reward_amount", "risk_reward", "stop_loss_pct" }

\* q is the quotient n / d in hundredths, to the nearest hundredth
IsRounded(q, n, d) ==
    /\ 2 * (q * d - 100 * n) <= d
    /\ 2 * (100 * n - q * d) <= d

\* C26: every verdict of validate_trade, on each rejection path and on
\* approval, holds all seven metrics, each computed from the call's arguments.
C26_MetricsInEveryVerdict ==
    Validated =>
        LET p == last.proposal
            d == last.result.details
            value == p.quantity * p.entry_price
            risk == Abs(p.entry_price - p.stop_loss)
            reward == Abs(p.take_profit - p.entry_price)
        IN  /\ Metrics \subseteq DOMAIN d
            /\ d.position_value = value
            /\ d.risk_amount = risk * p.quantity
            /\ d.reward_amount = reward * p.quantity
            /\ IF p.portfolio_value > 0
               THEN /\ IsRounded(d.portfolio_pct, value * 100, p.portfolio_value)
                    /\ IsRounded(d.risk_pct, risk * p.quantity * 100,
                                 p.portfolio_value)
               ELSE d.portfolio_pct = 0 /\ d.risk_pct = 0
            /\ IF risk > 0 THEN IsRounded(d.risk_reward, reward, risk)
               ELSE d.risk_reward = 0
            /\ IF p.entry_price > 0
               THEN IsRounded(d.stop_loss_pct, risk * 100, p.entry_price)
               ELSE d.stop_loss_pct = 0

\* C26 witness: a call rejected by the first check, on a closed market, whose
\* verdict holds the metrics of a trade of 1000 shares at 20 with stop 19 and
\* target 22 in a portfolio of 200000
C26_Witness ==
    /\ Validated
    /\ last.result.reason \in ReasonsOf(1)
    /\ last.proposal.quantity = 1000 /\ last.proposal.portfolio_value = 200000
    /\ last.result.details.position_value = 20000
    /\ last.result.details.portfolio_pct = 1000
    /\ last.result.details.risk_pct = 50
    /\ last.result.details.risk_reward = 200
    /\ last.result.details.stop_loss_pct = 500

----------------------------------------------------------------------------
(* Claims about the daily counter and the order path (SpecValidator, SpecTool) *)

\* The counter an entry into the validator starts from once reset_daily_counters
\* has run: the stored counter on the stored date, zero on any other date
CounterToday == IF trade_date = day THEN daily_trades ELSE 0

\* Whether the order o carries the trade of the validated proposal p
SameTrade(o, p) ==
    /\ o.symbol = p.symbol /\ o.side = p.side /\ o.quantity = p.quantity
    /\ o.stop_loss = p.stop_loss /\ o.take_profit = p.take_profit
    /\ o.order_type = "limit" => o.limit_price = p.entry_price

\* C1: no order is submitted to the broker unless validate_trade approved that
\* proposed trade first: every order the broker holds carries the trade of a
\* proposal that validate_trade has approved before.
C1_OrdersWereApproved ==
    \A i \in 1 .. Len(broker_orders) :
        \E p \in approved_props : SameTrade(broker_orders[i], p)

\* C5: daily_trades increases only in record_trade, which the tool executor
\* reaches only with a broker status it takes for an execution; it never
\* increases in validate_trade, in check_risk or in an execute_trade whose
\* status is anything else; and on every date it has been zeroed exactly once
\* as soon as the validator has been entered on that date, never before.
C5_CounterDiscipline ==
    /\ [] (reset_count = IF calls_today > 0 THEN 1 ELSE 0)
    /\ [][ /\ daily_trades' > daily_trades =>
                \/ last'.op = "record_trade"
                \/ last'.op = "execute_trade" /\ last'.status \in RecordedStatuses
           /\ last'.op \in { "validate_trade", "check_risk" } =>
                daily_trades' <= daily_trades
           /\ (last'.op = "execute_trade" /\ last'.status \notin RecordedStatuses) =>
                daily_trades' = daily_trades ]_vars

\* C5 witness: on a later date the counter has been zeroed once, trades have
\* been recorded since, and an execute_trade the broker rejected has left the
\* counter where it was.
C5_Witness ==
    /\ last.op = "execute_trade" /\ last.status = "REJECTED"
    /\ day > 0 /\ reset_count = 1
    /\ last.before > 0 /\ daily_trades = last.before

\* C6: every order the execution path submits successfully to the broker raises
\* the validator's daily counter by one.
C6_EverySubmissionIsRecorded ==
    [][ Len(broker_orders') > Len(broker_orders) =>
            daily_trades' = CounterToday + 1 ]_vars

\* C7 as stated: validate_trade leaves daily_trades as it was, whatever the
\* date; only record_trade changes it, and record_trade adds exactly 1.
C7_ValidateNeverChangesCounter ==
    [][ /\ last'.op = "validate_trade" => daily_trades' = daily_trades
        /\ last'.op = "record_trade" => daily_trades' = daily_trades + 1
        /\ daily_trades' # daily_trades => last'.op = "record_trade" ]_vars

\* C7 amended: validate_trade never raises daily_trades: it leaves the counter
\* as it was when trade_date is already the current date, and zeroes it on the
\* first call of another date; record_trade leaves the counter exactly 1 above
\* that starting value; only record_trade ever raises it.
C7_ValidateOnlyResets ==
    [][ /\ last'.op = "validate_trade" => daily_trades' = CounterToday
        /\ last'.op = "record_trade" => daily_trades' = CounterToday + 1
        /\ daily_trades' > daily_trades => last'.op = "record_trade" ]_vars

\* C7 witness: validate_trade was the first call of a new date and found
\* trades recorded on an earlier date; the counter is zero after it.
C7_Witness ==
    /\ last.op = "validate_trade"
    /\ last.before > 0 /\ daily_trades = 0
    /\ trade_date = day /\ calls_today = 1

\* C8: once the validator has been entered on the current date, a further
\* reset_daily_counters on that date changes neither daily_trades nor
\* trade_date.
C8_ResetIdempotent ==
    [][ (last'.op = "reset_daily_counters" /\ calls_today > 0 /\ day' = day) =>
            UNCHANGED <<daily_trades, trade_date>> ]_vars

\* C8 witness: a repeated reset_daily_counters on one date has kept the trades
\* recorded after the first call.
C8_Witness ==
    /\ last.op = "reset_daily_counters"
    /\ calls_today = 2 /\ reset_count = 1
    /\ last.before > 0 /\ daily_trades = last.before

\* C27: validate_close_all always approves, and its verdict carries a warning
\* exactly when daily_pnl_pct is above the hard limit -max_daily_loss_pct.
C27_CloseAllWarnsAboveHardLimit ==
    last.op = "validate_close_all" =>
        /\ last.result.approved
        /\ last.result.warnings # {}
              <=> last.proposal.daily_pnl_bp > 0 - limits.max_daily_loss_bp

----------------------------------------------------------------------------
(* Claims about the StimulusEvaluator (SpecStimulus) *)

\* C9: between two reset_session calls evaluate emits at most one PRICE_MOVE
\* stimulus for any symbol, however often it sees a large change_pct.
C9_OnePriceMovePerSession ==
    \A s \in Symbols : price_moves[s] <= 1

\* C9 witness: evaluate has just seen a large change_pct for a symbol that it
\* alerted in an earlier call since the last reset_session, and has emitted no
\* PRICE_MOVE for it this time.
C9_Witness ==
    \E s \in Symbols :
        /\ last.op = "evaluate" /\ market_state.is_market_open
        /\ ~ QuoteRaises(market_state.quotes[s])
        /\ SignificantMove(market_state.quotes[s])
        /\ PriceMovesIn(stimuli, s) = 0
        /\ price_moves[s] = 1

\* C23: when market_state.is_market_open is false evaluate returns the empty
\* list, whatever the quotes, the positions' P&L and the daily P&L are.
C23_ClosedMarketNoStimuli ==
    (last.op = "evaluate" /\ ~ market_state.is_market_open) => stimuli = <<>>

\* evaluate was called on a closed market with a quote that moved beyond the
\* threshold for a symbol not yet alerted, a position beyond its target and a
\* daily loss beyond the limit
C23_Witness ==
    /\ last.op = "evaluate" /\ ~ market_state.is_market_open
    /\ \E s \in Symbols :
          SignificantMove(market_state.quotes[s]) /\ ~ AlreadyAlerted(s)
    /\ check_positions(last.portfolio.positions) # <<>>
    /\ check_risk_limits(last.portfolio) # <<>>
    /\ stimuli = <<>>

\* C31: after every evaluate call on an open market that returns,
\* last_volumes[s] is the volume of s in the call's snapshot for every symbol,
\* spike or not, and a VOLUME_SPIKE for s is in the returned list exactly when
\* the volume seen at the preceding evaluation of s is known and not 0 and
\* (current - previous) / previous exceeds the volume threshold.
C31_LastVolumesFollowSnapshot ==
    [][ (/\ last'.op = "evaluate" /\ last'.error = ""
         /\ market_state'.is_market_open) =>
           \A s \in Symbols :
              LET current == market_state'.quotes[s].volume
                  previous == last_volumes[s]
                  spikes == \E i \in 1 .. Len(stimuli') :
                               /\ stimuli'[i].type = "VOLUME_SPIKE"
                               /\ stimuli'[i].symbol = s
              IN  /\ last_volumes'[s] = current
                  /\ spikes <=> /\ previous # Absent /\ previous > 0
                                /\ (current - previous) * 10
                                      > volume_threshold_x10 * previous ]_vars

\* C31 witness: evaluate has returned a VOLUME_SPIKE for one symbol and none
\* for the other, and holds the snapshot's volumes of both
C31_Witness ==
    /\ last.op = "evaluate" /\ last.error = "" /\ market_state.is_market_open
    /\ \A s \in Symbols : last_volumes[s] = market_state.quotes[s].volume
    /\ Cardinality({ i \in 1 .. Len(stimuli) :
                        stimuli[i].type = "VOLUME_SPIKE" }) = 1

\* C32: an evaluate call on an open market returns at most one RISK_WARNING:
\* a critical one with action_required = CLOSE_ALL when daily_pnl_pct is below
\* the daily-loss limit, one of urgency high without action_required when it
\* is between 75 % of the limit and the limit, none otherwise.
C32_OneRiskWarning ==
    (last.op = "evaluate" /\ last.error = "" /\ market_state.is_market_open) =>
        LET pnl_x10 == last.portfolio.daily_pnl_pct * 10
            limit_x10 == max_daily_loss_pct_x10 * 100
            warnings == { i \in 1 .. Len(stimuli) :
                            stimuli[i].type = "RISK_WARNING" }
        IN  /\ Cardinality(warnings) <= 1
            /\ IF pnl_x10 < 0 - limit_x10
               THEN \E i \in warnings :
                       /\ stimuli[i].urgency = "critical"
                       /\ action_required(stimuli[i]) = "CLOSE_ALL"
               ELSE IF 4 * pnl_x10 < 0 - 3 * limit_x10
               THEN \E i \in warnings :
                       /\ stimuli[i].urgency = "high"
                       /\ action_required(stimuli[i]) = ""
               ELSE warnings = {}

\* C32 witness: evaluate was given a daily loss beyond the limit and returned
\* its single RISK_WARNING after a position's stimulus
C32_Witness ==
    /\ last.op = "evaluate" /\ market_state.is_market_open
    /\ last.portfolio.daily_pnl_pct = 0 - 250
    /\ Len(stimuli) >= 2
    /\ stimuli[Len(stimuli)].type = "RISK_WARNING"
    /\ stimuli[Len(stimuli)].urgency = "critical"
    /\ stimuli[Len(stimuli) - 1].type = "TARGET_REACHED"

\* C33: for every portfolio whose daily loss exceeds 2 % of equity, for which
\* validate_trade with the default limits rejects for the daily loss, evaluate
\* on an open market returns the RISK_WARNING with action_required = CLOSE_ALL.
C33_FlattenAtTheHardLimit ==
    (last.op = "evaluate" /\ last.error = "" /\ market_state.is_market_open) =>
        LET p == [ GoodBuy EXCEPT !.daily_pnl_bp = daily_pnl_bp_of(last.portfolio) ]
        IN  (/\ p.daily_pnl_bp < 0 - DefaultLimits.max_daily_loss_bp
             /\ DailyLossReached(p, DefaultLimits)) =>
                \E i \in 1 .. Len(stimuli) :
                    /\ stimuli[i].type = "RISK_WARNING"
                    /\ action_required(stimuli[i]) = "CLOSE_ALL"

\* C29: a malformed quote of one symbol (a missing change_pct) yields no
\* stimulus for that symbol only: evaluate returns without an error, and the
\* list it returns ends with the stimuli of the positions and of the risk check.
C29_BadQuoteSuppressesOneSymbol ==
    (/\ last.op = "evaluate" /\ market_state.is_market_open
     /\ \E s \in Symbols : QuoteRaises(market_state.quotes[s])) =>
        LET rest == check_positions(last.portfolio.positions)
                    \o check_risk_limits(last.portfolio)
        IN  /\ last.error = ""
            /\ Len(stimuli) >= Len(rest)
            /\ SubSeq(stimuli, Len(stimuli) - Len(rest) + 1, Len(stimuli)) = rest

----------------------------------------------------------------------------
(* Claims about the control loop (Spec) *)

\* C10: the control loop calls reset_session at each session start it
\* detects, so once an iteration has detected a session start no symbol is
\* still alerted from an earlier session: whatever is in alerted_symbols then
\* has been alerted in the session that is starting.
C10_SessionStartResetsEvaluator ==
    [][ (pc = "temporal" /\ pc' = "idle" /\ is_session_start(tod)) =>
            stale_alerts' = {} ]_vars

----------------------------------------------------------------------------
(* Claims about one stimulus in the run loop (SpecRun) *)

\* A step of process_stimulus, seen from the state it starts in
Processing == pc = "process" /\ last'.op = "process_stimulus"

\* C11: a decision is persisted by log_decision before its execution is
\* attempted (the executor is called only for a decision that has its row),
\* and the outcome is attached to that same row: update_decision_execution
\* gets the id log_decision returned, the table grows by the logged row only
\* and no earlier row changes.
C11_LoggedThenUpdatedInPlace ==
    [][ Processing =>
          LET st == last'.step IN
          /\ st.executed => st.logged = Len(decisions) + 1
          /\ st.updated # 0 => st.executed /\ st.updated = st.logged
          /\ Len(decisions') = IF st.logged # 0 THEN Len(decisions) + 1
                               ELSE Len(decisions)
          /\ \A i \in 1 .. Len(decisions) : decisions'[i] = decisions[i]
          /\ st.logged # 0 =>
                decisions'[st.logged].executed = (st.updated = st.logged)
          /\ ib_orders' # ib_orders => st.logged # 0 ]_vars

\* An outcome written to the second row of the table, the first one in place
C11_Witness ==
    /\ last.op = "process_stimulus"
    /\ last.step.updated = 2
    /\ Len(decisions) = 2
    /\ decisions[2].executed
    /\ ~ decisions[1].executed
    /\ ib_orders # <<>>

\* C12: the stimuli of a tick are processed independently: whatever happens
\* while one stimulus is processed (oracle timeout, repository error, lost
\* gateway connection), the remaining stimuli of the tick are processed next.
C12_StimuliProcessedIndependently ==
    [][ (Processing /\ Len(stimuli) > 1) =>
          (pc' = "process" /\ stimuli' = Tail(stimuli)) ]_vars

\* C13: when the market snapshot or the portfolio snapshot cannot be fetched,
\* the tick goes straight to the back-off sleep: evaluate is not called and
\* no stimulus is left to process.
C13_FailedFetchSkipsTick ==
    [][ (pc = "idle" /\ last'.op = "loop_iteration"
         /\ last'.step.fetch # "ok") =>
          (pc' = "backoff" /\ ~ last'.step.evaluated /\ stimuli' = <<>>) ]_vars

\* C14: a RISK_WARNING stimulus whose action_required is CLOSE_ALL is never
\* given to the oracle: processing it calls close_all_positions.
C14_CloseAllBypassesOracle ==
    [][ (Processing /\ action_required(Head(stimuli)) = "CLOSE_ALL") =>
          (last'.step.close_all /\ last'.step.oracle = "") ]_vars

\* C15: when the oracle call fails (API error, timeout, unparseable answer)
\* the decision is HOLD: the executor is not called, no order is placed, and
\* the tick goes on with the next stimulus unless the repository fails.
C15_OracleFailureMeansHold ==
    [][ (Processing /\ last'.step.oracle = "failed") =>
          /\ last'.step.action = "HOLD"
          /\ ~ last'.step.executed
          /\ ib_orders' = ib_orders
          /\ last'.error \in { "", "RepositoryError" }
          /\ last'.error = "" =>
                /\ stimuli' = Tail(stimuli)
                /\ pc' = IF Tail(stimuli) = <<>> THEN "temporal" ELSE "process"
                /\ last'.step.logged = Len(decisions) + 1 ]_vars

\* A failed oracle call after which the tick goes on with its next stimulus
C15_Witness ==
    /\ last.op = "process_stimulus"
    /\ last.step.oracle = "failed"
    /\ last.step.action = "HOLD"
    /\ last.error = ""
    /\ pc = "process"
    /\ stimuli # <<>>

\* C19: an execution attempted by the control loop that comes back with
\* success = false is followed by a notification.
C19_FailedExecutionNotifies ==
    [][ (Processing /\ last'.step.executed /\ last'.error = ""
         /\ ~ last'.step.success) =>
          last'.step.alerts # {} ]_vars

\* C20: only BUY, SELL and CLOSE decisions reach the executor; a decision
\* with any other action is logged and dropped without the executor being
\* called.
C20_OnlyTradesReachTheExecutor ==
    [][ (Processing /\ last'.step.action \notin { "BUY", "SELL", "CLOSE" }) =>
          (~ last'.step.executed /\ last'.step.updated = 0) ]_vars

----------------------------------------------------------------------------
(* Claims about the run loop (SpecRun, SpecStopFair) *)

\* The steps of a tick
TickSteps == { "loop_iteration", "process_stimulus", "check_temporal_triggers" }

\* C16: an exception raised anywhere in a tick is caught at the tick's
\* boundary: the step that raised leaves the loop in the handler, the handler
\* sends an error alert, sleeps and returns to the loop's test, from where the
\* next tick can start; the loop is left for shutdown only once running is
\* false.
C16_ExceptionsEndTheTickOnly ==
    /\ [] ( (last.op \in TickSteps /\ last.error # "") => pc = "backoff" )
    /\ [] ( (pc = "idle" /\ running) => ENABLED RunIteration )
    /\ [][ (pc = "backoff" /\ pc' # "backoff") =>
              (pc' = "idle" /\ "error" \in last'.step.alerts
               /\ running' = running /\ released' = {}) ]_vars
    /\ [][ (pc # "stopped" /\ pc' = "stopped") => ~ running ]_vars

\* The handler has run after an exception of process_stimulus and the loop is
\* back at its test, about to start the next tick
C16_Witness ==
    /\ last.op = "backoff"
    /\ "error" \in last.step.alerts
    /\ pc = "idle"
    /\ running
    /\ decisions # <<>>

----------------------------------------------------------------------------
(* Claims about the temporal triggers (SpecCalm) *)

\* C18: between two observations of a session-start window
\* end_of_session_analysis is run at most once (analyses counts its calls
\* since the latch was last cleared at a session start).
C18_AnalysisRunsOncePerSession == analyses <= 1

----------------------------------------------------------------------------
(* Claims about the order of the loop's work (SpecRun) *)

PositionIndex(positions, symbol) ==
    CHOOSE k \in 1 .. Len(positions) : positions[k].symbol = symbol

\* Quote stimuli first, position stimuli second, the portfolio's warning third
Kind(s) ==
    IF s.type \in { "VOLUME_SPIKE", "PRICE_MOVE" } THEN 1
    ELSE IF s.type \in { "STOP_TRIGGERED", "TARGET_REACHED" } THEN 2
    ELSE 3

\* The stimulus a comes before the stimulus b in the order of one tick
ComesBefore(a, b, positions) ==
    \/ Kind(a) < Kind(b)
    \/ /\ Kind(a) = 1 /\ Kind(b) = 1
       /\ \/ WatchIndex(a.symbol) < WatchIndex(b.symbol)
          \/ /\ a.symbol = b.symbol
             /\ a.type = "VOLUME_SPIKE" /\ b.type = "PRICE_MOVE"
    \/ /\ Kind(a) = 2 /\ Kind(b) = 2
       /\ PositionIndex(positions, a.symbol) < PositionIndex(positions, b.symbol)

\* C22: the stimuli of a tick are emitted in order (per symbol of market.quotes
\* the volume spike before the price move, then the positions' stimuli in the
\* order of the positions, the RISK_WARNING last) and processed in that order,
\* the first of the list at each step.
C22_StimuliInOrder ==
    /\ [] ( (last.op = "loop_iteration" /\ last.step.evaluated) =>
              \A i, j \in 1 .. Len(stimuli) :
                  i < j => ComesBefore(stimuli[i], stimuli[j],
                                       last.portfolio.positions) )
    /\ [][ Processing =>
              /\ last'.step.stimulus = Head(stimuli)
              /\ stimuli' \in { Tail(stimuli), <<>> }
              /\ last'.error = "" => stimuli' = Tail(stimuli) ]_vars

\* A tick that emitted every kind of stimulus has had its first stimulus
\* processed and is about to process the second
C22_Witness ==
    /\ last.op = "process_stimulus"
    /\ last.step.stimulus.type = "VOLUME_SPIKE"
    /\ Len(stimuli) >= 5
    /\ stimuli[1].type = "PRICE_MOVE"
    /\ \E i \in 1 .. Len(stimuli) : stimuli[i].type = "TARGET_REACHED"
    /\ stimuli[Len(stimuli)].type = "RISK_WARNING"

\* C28: a failure of the notification channel (webhook or SMTP) is swallowed
\* by the notifier: the step that sent the alert goes on as after a delivered
\* one, the handler back to the loop's test, process_stimulus to the next
\* stimulus, shutdown to its end, and no error reaches run.
C28_NotifierFailuresSwallowed ==
    [][ last'.step.channel \in { "webhook_error", "smtp_error" } =>
          /\ last'.error = ""
          /\ last'.op = "backoff" => pc' = "idle"
          /\ last'.op = "process_stimulus" =>
                /\ stimuli' = Tail(stimuli)
                /\ pc' \in { "process", "temporal" }
          /\ last'.op = "shutdown" =>
                pc' = "stopped" /\ released' = Collaborators ]_vars

\* The error alert of run's handler met a failing webhook and the loop is
\* back at its test, running
C28_Witness ==
    /\ last.op = "backoff"
    /\ last.step.alerts = { "error" }
    /\ last.step.channel = "webhook_error"
    /\ pc = "idle" /\ running

\* C30: the price threshold evaluate applies in a tick is the one of the
\* current strategy parameters: every PRICE_MOVE stimulus of a tick is for a
\* quote whose change_pct is beyond the price_threshold of the strategy the
\* loop has just assigned to the evaluator.
C30_ThresholdsFollowStrategy ==
    (last.op = "loop_iteration" /\ last.step.evaluated) =>
        \A i \in 1 .. Len(stimuli) :
            stimuli[i].type = "PRICE_MOVE" =>
                Abs(market_state.quotes[stimuli[i].symbol].change_x10)
                    > strategy.price_threshold_x10

\* C34: a persisted decision is marked executed only if its execution
\* succeeded: whenever process_stimulus leaves the row it has just logged with
\* executed = true, the ExecutionResult of that decision has success = true.
C34_ExecutedOnlyOnSuccess ==
    [][ (last'.op = "process_stimulus" /\ last'.step.logged # 0) =>
          (decisions'[last'.step.logged].executed => last'.step.success) ]_vars

\* C35: in every session-end window in which a tick reaches the
\* temporal-trigger check, end_of_session_analysis is invoked in that window:
\* once _check_temporal_triggers has run at a moment of a session-end window,
\* the analysis has been called in this very window (the latch cannot be
\* cleared inside the window, so a check that skips the analysis is followed
\* by no call in the same window).
C35_AnalysisInEverySessionEnd ==
    [][ (last'.op = "check_temporal_triggers" /\ is_session_end(tod)) =>
          analysed_window' ]_vars

\* C36: the shutdown sequence runs exactly once per process run: the
\* shutdown notification is sent at most once, that is, never by a call of
\* shutdown that follows an earlier call (one that has already released the
\* collaborators).
C36_ShutdownRunsOnce ==
    [][ "shutdown" \in last'.step.alerts => released = {} ]_vars

\* C37: no queued alert is lost on shutdown of the AlertSender: once stop()
\* has returned and no worker thread is alive, every alert that send() had
\* enqueued before that stop() has been handed to _send_email.
C37_NoAlertLostOnStop ==
    (caller = "idle" /\ ~ sender_running /\ worker = None
        /\ \A w \in Workers : ~ is_alive(w))
        => at_stop \subseteq handed

\* C38: at most one AlertSender worker thread is alive at any time, after any
\* sequence of start(), send() and stop().
C38_OneWorkerAlive ==
    Cardinality({ w \in Workers : is_alive(w) }) <= 1

\* C39: close_all_positions attempts to close every position of the snapshot
\* whose quantity is not 0 exactly once, in snapshot order, and returns one
\* result per such position: a close that fails, by a result without success
\* or by an exception inside it, does not stop the closes of the rest.
NonZero(pos) == pos.quantity # 0

C39_EveryPositionAttempted ==
    last.op = "close_all_positions" =>
        LET held == SelectSeq(last.snapshot, NonZero)
        IN  /\ Len(last.closes) = Len(held)
            /\ \A i \in 1 .. Len(held) : last.closes[i].symbol = held[i].symbol

\* Three positions held, the close of the first raised, the close of the
\* second was cancelled and the third was closed
C39_Witness ==
    /\ last.op = "close_all_positions"
    /\ Len(last.snapshot) = 3
    /\ \A i \in 1 .. 3 : last.snapshot[i].quantity # 0
    /\ Len(last.closes) = 3
    /\ ~ last.closes[1].result.success /\ last.closes[1].result.order = NoOrder
    /\ last.closes[2].result.status = "Cancelled"
    /\ last.closes[3].result.success
    /\ Len(ib_orders) = 2

====
